---- MODULE Spec2Model ----
(***************************************************************************)
(* Model of onnx-web-framework, as several systems over separate variables:*)
(*   - Spec, LiveSpec: one ONNXWorkerProxy (worker-proxy.js) on its worker *)
(*     - request ids, the pending-request map, per-request timers,         *)
(*     response routing, worker errors, dispose - with the worker as far   *)
(*     as the proxy observes it;                                           *)
(*   - SharedSpec: two ONNXWorkerProxy instances built on one Worker;      *)
(*   - WorkerSpec: the worker runtime (src/worker.js) - ONNXWorkerRuntime  *)
(*     and self.onmessage, whose handlers interleave at their awaits;      *)
(*   - CacheSpec: ModelCache (src/model-cache.js) over its object store,   *)
(*     the clock and the network; FailingStoreSpec adds the failures of    *)
(*     the store (open and requests), ReopenedSpec the entry an earlier    *)
(*     page left in the database;                                          *)
(*   - FrameworkSpec: ONNXWebFramework (src/onnx-web-framework.js) calling *)
(*     that cache, with its options enableCache and cacheMaxAge;           *)
(*   - DownloadSpec: the network path of one getModel call in bytes - the  *)
(*     HEAD request, the whole-resource GET, the ranges of                 *)
(*     downloadInChunks and the record given to store.put.                 *)
(*                                                                         *)
(* In the proxy a call is identified by its call number n (its position in *)
(* `issued`); the id it sent is issued[n].id.  An entry of pendingRequests,*)
(* keyed by id, holds the call number whose resolve/reject/timer it stores.*)
(* JavaScript runs each callback to completion: every action below is one  *)
(* synchronous block of a thread, up to the next await of something that   *)
(* is not yet settled.                                                     *)
(***************************************************************************)
EXTENDS Integers, Sequences, FiniteSets, TLC

\* ---------------------------------------------------------------- bounds
MaxRequests == 2
MaxDisposeCalls == 2
MaxRejectedCalls == 1
MaxSharedRequests == 1
MaxMessages == 4
MaxOps == 2
MaxTicks == 2
MaxDeviations == 1

\* ------------------------------------------------------ program constants
defaultTimeout == 60000
disposeTimeout == 5000

INITIALIZE == "initialize"
LOAD_MODEL == "load_model"
RUN_INFERENCE == "run_inference"
DISPOSE == "dispose"
RESULT == "result"
ERROR == "error"

CallTypes == {INITIALIZE, LOAD_MODEL, RUN_INFERENCE}

VARIABLES
    requestId,        \* this.requestId
    pendingRequests,  \* this.pendingRequests: id -> call number (resolve, reject, timeout)
    timers,           \* call numbers whose setTimeout is scheduled and not cleared
    isDisposed,       \* this.isDisposed
    terminateCalls,   \* number of worker.terminate() invocations
    inbox,            \* requests posted to the worker, not yet answered
    responses,        \* responses posted by the worker, not yet delivered
    issued,           \* per call number: the id, type and timeout of the request
    settled,          \* per call number: the resolve/reject invocations on its promise
    disposePc,        \* per dispose() invocation: its position
    disposeReq,       \* per dispose() invocation: call number of its dispose request
    pendingAtDispose, \* per dispose() invocation: the calls pending when it was invoked
    rejectedCalls     \* calls rejected by the isDisposed guard of _request

vars == <<requestId, pendingRequests, timers, isDisposed, terminateCalls, inbox,
          responses, issued, settled, disposePc, disposeReq, pendingAtDispose,
          rejectedCalls>>

\* Two proxies constructed on one Worker object (the shared-worker system)
VARIABLES
    sConstructed,     \* the proxies whose constructor has run
    sOnmessage,       \* worker.onmessage: the proxy whose _handleMessage is bound to it
    sRequestId,       \* per proxy: this.requestId
    sPending,         \* per proxy: this.pendingRequests (id -> id)
    sInbox,           \* requests posted to the worker, not yet answered
    sResponses,       \* responses posted by the worker, not yet delivered
    sSettled          \* resolve/reject invocations: the proxy and id of the call, the event

sharedVars == <<sConstructed, sOnmessage, sRequestId, sPending, sInbox, sResponses, sSettled>>

\* The worker runtime (src/worker.js): ONNXWorkerRuntime and self.onmessage
VARIABLES
    isInitialized,    \* runtime.isInitialized
    config,           \* runtime.config
    models,           \* runtime.models: modelName -> session (the number of the
                      \* message whose loadModel created it)
    released,         \* the sessions on which release() has been called
    received,         \* the messages dispatched to self.onmessage, in arrival order
    handler,          \* per received message: where its handler stands
    posted            \* the responses passed to self.postMessage, in order

runtimeVars == <<isInitialized, config, models, released, received, handler, posted>>

\* The model cache (src/model-cache.js): ModelCache over its IndexedDB store
VARIABLES
    now,              \* Date.now()
    db,               \* this.db: 0 (null), or the operation whose open produced the handle
    store,            \* the object store 'models': url -> record
    txQueue,          \* the transactions created on the store and not yet run, in order
    ops,              \* the calls on the cache: where each stands, the network
                      \* requests it issued, what it returned
    options,          \* ONNXWebFramework: this.options (enableCache, cacheMaxAge)
    frameworkInitialized  \* ONNXWebFramework: this.isInitialized

cacheVars == <<now, db, store, txQueue, ops, options, frameworkInitialized>>


\* One download of getModel (src/model-cache.js): the HEAD request, the choice
\* between the whole-resource GET and downloadInChunks, and cacheModel, in bytes
VARIABLES
    resource,         \* the size in bytes of the resource the server holds
    getModelPc,       \* where getModel stands
    supportsRange,    \* headResponse.headers.get('Accept-Ranges') === 'bytes'
    contentLength,    \* headResponse.headers.get('Content-Length'), null if absent
    headEtag,         \* headResponse.headers.get('ETag')
    chunkStart,       \* the variable start of the loop of downloadInChunks
    chunks,           \* the array chunks
    downloaded,       \* the counter downloaded
    fetches,          \* the requests passed to fetch, in order
    modelArray,       \* the bytes getModel got from the network
    puts,             \* the records passed to store.put, in order
    thrown            \* what getModel rejected with

downloadVars == <<resource, getModelPc, supportsRange, contentLength, headEtag, chunkStart,
                  chunks, downloaded, fetches, modelArray, puts, thrown>>
\* ------------------------------------------------------------ Map helpers
EmptyMap == [k \in {} |-> 0]

MapSet(m, k, v) == [x \in (DOMAIN m) \cup {k} |-> IF x = k THEN v ELSE m[x]]

MapDelete(m, k) == [x \in (DOMAIN m) \ {k} |-> m[x]]

Range(f) == {f[x] : x \in DOMAIN f}

\* ------------------------------------------------------- promise helpers
\* one invocation of resolve (how = "resolved") or reject (how = "rejected"):
\*   by   - what settled the call: RESULT / ERROR (a response), "timeout",
\*          "send" (postMessage threw), "worker" (worker error), "disposed"
\*   of   - for a response: the request id the worker computed the data/error for
\*   type, ms - for a timeout: the request type and the bound named by the error
Ev(how, by, of, type, ms) == [how |-> how, by |-> by, of |-> of, type |-> type, ms |-> ms]

\* resolve/reject of call n invoked with event ev
Settle(s, n, ev) == [s EXCEPT ![n] = Append(@, ev)]

SettleAll(s, ns, ev) == [n \in DOMAIN s |-> IF n \in ns THEN Append(s[n], ev) ELSE s[n]]

IsSettled(n) == n \in DOMAIN settled /\ settled[n] # <<>>

\* the state of the promise of call n: a promise keeps its first settlement
Outcome(n) == settled[n][1]

\* --------------------------------------------------------- wire messages
Request(id, type) == [id |-> id, type |-> type]

NoValue == [msg |-> "", of |-> 0]

\* new WorkerResponse(req.id, RESULT) with data set, or turned into an error
WorkerResponse(id, type, data, error) == [id |-> id, type |-> type, data |-> data, error |-> error]

Truthy(v) == v.msg # ""

\* ------------------------------------------------ ONNXWorkerProxy: pieces
\* const id = ++this.requestId
NextRequestId(rid) == rid + 1

\* this.requestId once _request has run: the catch branch of a failed send
\* cleans the timer and the entry up and leaves the counter alone
RequestIdRolledBack(id, sendOk) == IF sendOk THEN id ELSE id - 1

RequestIdAfterSend(id, sendOk) == id

\* const reqTimeout = timeout || this.defaultTimeout   (null is modelled as 0)
ReqTimeout(timeout) == IF timeout = 0 THEN defaultTimeout ELSE timeout

\* const timeoutId = setTimeout(...)
ScheduleTimerNever(ts, n) == ts

ScheduleTimer(ts, n) == ts \cup {n}

\* clearTimeout(pending.timeout)
ClearTimeoutForgotten(ts, n) == ts

ClearTimeout(ts, n) == ts \ {n}

\* if (this.isDisposed) throw ...      (guard of _request)
DisposedGuardMissing(d) == FALSE

DisposedGuard(d) == d

\* const pending = this.pendingRequests.get(res.id): the call whose
\* resolve/reject/timeout the entry holds, 0 when there is no entry
OldestKey(pend) == CHOOSE k \in DOMAIN pend : \A j \in DOMAIN pend : k <= j

GetPendingOldest(pend, id) == IF DOMAIN pend # {} THEN pend[OldestKey(pend)] ELSE 0

GetPending(pend, id) == IF id \in DOMAIN pend THEN pend[id] ELSE 0

\* timer callback: this.pendingRequests.delete(id)
TimeoutDeleteForgotten(pend, id) == pend

TimeoutDelete(pend, id) == MapDelete(pend, id)

\* catch branch of _request: this.pendingRequests.delete(id)
SendFailedDeleteForgotten(pend, id) == pend

SendFailedDelete(pend, id) == MapDelete(pend, id)

\* _handleError: this.pendingRequests.clear()
ErrorClearForgotten(pend) == pend

ErrorClear(pend) == EmptyMap

\* dispose: the calls rejected with 'Worker disposed' (all entries of the map)
DisposeRejectedNone(pend) == {}

DisposeRejected(pend) == Range(pend)

\* ------------------------------------------------------- scheduling rules
\* a dispose() invocation is inside its synchronous tail (after the await)
InSyncBlock == \E k \in DOMAIN disposePc : disposePc[k] \in {"cleared", "terminated"}

\* try { await this._request(DISPOSE, {}, 5000) } catch { ... }: dispose()
\* goes on once its dispose request has settled, whatever the outcome; the
\* continuation is a queued microtask and runs before the next event is dispatched
DisposeNotAwaited(k) == disposePc[k] = "waiting"

DisposeResumable(k) == disposePc[k] = "waiting" /\ IsSettled(disposeReq[k])

\* user code (a call, a dispose) may run in any synchronous block or microtask
UserCodeAllowed == ~InSyncBlock

\* a message event, an error event or a timer callback is dispatched only when
\* no microtask is queued
EventAllowed == ~InSyncBlock /\ ~(\E k \in DOMAIN disposePc : DisposeResumable(k))

\* ----------------------------------------------------------------- Init
Init ==
    /\ requestId = 0
    /\ pendingRequests = EmptyMap
    /\ timers = {}
    /\ isDisposed = FALSE
    /\ terminateCalls = 0
    /\ inbox = {}
    /\ responses = {}
    /\ issued = <<>>
    /\ settled = <<>>
    /\ disposePc = [k \in 1..MaxDisposeCalls |-> "idle"]
    /\ disposeReq = [k \in 1..MaxDisposeCalls |-> 0]
    /\ pendingAtDispose = [k \in 1..MaxDisposeCalls |-> {}]
    /\ rejectedCalls = 0

\* --------------------------------------------------------------- _request
\* The body of _request(type, data, timeout) after its isDisposed guard:
\* allocate the id, schedule the timer, register the entry, post the message;
\* sendOk = FALSE is worker.postMessage throwing synchronously.
RequestBody(type, timeout, sendOk) ==
    LET id == NextRequestId(requestId)
        n == Len(issued) + 1
        reqTimeout == ReqTimeout(timeout)
        timers1 == ScheduleTimer(timers, n)
        pend1 == MapSet(pendingRequests, id, n)
    IN  /\ requestId' = RequestIdAfterSend(id, sendOk)
        /\ issued' = Append(issued, [id |-> id, type |-> type, ms |-> reqTimeout])
        /\ IF sendOk
           THEN /\ timers' = timers1
                /\ pendingRequests' = pend1
                /\ inbox' = inbox \cup {Request(id, type)}
                /\ settled' = Append(settled, <<>>)
           ELSE /\ timers' = ClearTimeout(timers1, n)
                /\ pendingRequests' = SendFailedDelete(pend1, id)
                /\ inbox' = inbox
                /\ settled' = Append(settled, <<Ev("rejected", "send", 0, "", 0)>>)

\* initialize(config) / loadModel(name, buffer, options) / run(name, inputs)
\* with valid arguments: each is one _request(type, data) with no timeout given.
\* (A missing modelName, modelBuffer or inputs rejects before _request and
\* touches no state.)
Call(type, sendOk) ==
    /\ UserCodeAllowed
    /\ IF DisposedGuard(isDisposed)
       THEN /\ rejectedCalls < MaxRejectedCalls
            /\ rejectedCalls' = rejectedCalls + 1
            /\ UNCHANGED <<requestId, pendingRequests, timers, inbox, issued, settled>>
       ELSE /\ Len(issued) < MaxRequests
            /\ RequestBody(type, 0, sendOk)
            /\ UNCHANGED rejectedCalls
    /\ UNCHANGED <<isDisposed, terminateCalls, responses, disposePc, disposeReq,
                   pendingAtDispose>>

\* ---------------------------------------------------------- _handleMessage
HandleMessage(res) ==
    /\ EventAllowed
    /\ res \in responses
    /\ responses' = responses \ {res}
    /\ LET n == GetPending(pendingRequests, res.id)
       IN  IF isDisposed \/ n = 0
           THEN UNCHANGED <<pendingRequests, timers, settled>>
           ELSE /\ timers' = ClearTimeout(timers, n)
                /\ pendingRequests' = MapDelete(pendingRequests, res.id)
                /\ settled' = Settle(settled, n,
                       IF res.type = ERROR \/ Truthy(res.error)
                       THEN Ev("rejected", ERROR, res.error.of, "", 0)
                       ELSE Ev("resolved", RESULT, res.data.of, "", 0))
    /\ UNCHANGED <<requestId, isDisposed, terminateCalls, inbox, issued, disposePc,
                   disposeReq, pendingAtDispose, rejectedCalls>>

\* ------------------------------------------------------------ _handleError
HandleError ==
    /\ EventAllowed
    /\ terminateCalls = 0
    /\ timers' = timers \ Range(pendingRequests)
    /\ settled' = SettleAll(settled, Range(pendingRequests), Ev("rejected", "worker", 0, "", 0))
    /\ pendingRequests' = ErrorClear(pendingRequests)
    /\ UNCHANGED <<requestId, isDisposed, terminateCalls, inbox, responses, issued,
                   disposePc, disposeReq, pendingAtDispose, rejectedCalls>>

\* ------------------------------------------- timer callback of _request
TimeoutFire(n) ==
    /\ EventAllowed
    /\ n \in timers
    /\ timers' = timers \ {n}
    /\ pendingRequests' = TimeoutDelete(pendingRequests, issued[n].id)
    /\ settled' = Settle(settled, n, Ev("rejected", "timeout", 0, issued[n].type, issued[n].ms))
    /\ UNCHANGED <<requestId, isDisposed, terminateCalls, inbox, responses, issued,
                   disposePc, disposeReq, pendingAtDispose, rejectedCalls>>

\* ----------------------------------------------------------------- dispose
\* dispose() up to its await: the early return, or the dispose request
DisposeStart(k, sendOk) ==
    /\ UserCodeAllowed
    /\ disposePc[k] = "idle"
    /\ \A j \in 1..(k - 1) : disposePc[j] # "idle"
    /\ IF isDisposed
       THEN /\ disposePc' = [disposePc EXCEPT ![k] = "done"]
            /\ UNCHANGED <<requestId, pendingRequests, timers, inbox, issued, settled,
                           disposeReq, pendingAtDispose>>
       ELSE /\ Len(issued) < MaxRequests
            /\ RequestBody(DISPOSE, disposeTimeout, sendOk)
            /\ disposePc' = [disposePc EXCEPT ![k] = "waiting"]
            /\ disposeReq' = [disposeReq EXCEPT ![k] = Len(issued) + 1]
            /\ pendingAtDispose' = [pendingAtDispose EXCEPT ![k] = Range(pendingRequests)]
    /\ UNCHANGED <<isDisposed, terminateCalls, responses, rejectedCalls>>

\* after the await (whatever the outcome of the dispose request): reject what
\* is left in the map, clear it
DisposeRejectAll(k) ==
    /\ ~InSyncBlock
    /\ DisposeResumable(k)
    /\ timers' = timers \ Range(pendingRequests)
    /\ settled' = SettleAll(settled, DisposeRejected(pendingRequests),
                            Ev("rejected", "disposed", 0, "", 0))
    /\ pendingRequests' = EmptyMap
    /\ disposePc' = [disposePc EXCEPT ![k] = "cleared"]
    /\ UNCHANGED <<requestId, isDisposed, terminateCalls, inbox, responses, issued,
                   disposeReq, pendingAtDispose, rejectedCalls>>

\* this.worker.terminate(): the worker stops at once; the requests it has not
\* answered and the responses not yet delivered to onmessage are discarded
DisposeTerminate(k) ==
    /\ disposePc[k] = "cleared"
    /\ terminateCalls' = terminateCalls + 1
    /\ disposePc' = [disposePc EXCEPT ![k] = "terminated"]
    /\ inbox' = {}
    /\ responses' = {}
    /\ UNCHANGED <<requestId, pendingRequests, timers, isDisposed,
                   issued, settled, disposeReq, pendingAtDispose, rejectedCalls>>

\* this.isDisposed = true; dispose() returns
DisposeMark(k) ==
    /\ disposePc[k] = "terminated"
    /\ isDisposed' = TRUE
    /\ disposePc' = [disposePc EXCEPT ![k] = "done"]
    /\ UNCHANGED <<requestId, pendingRequests, timers, terminateCalls, inbox, responses,
                   issued, settled, disposeReq, pendingAtDispose, rejectedCalls>>

\* ------------------------------------------------ the worker: self.onmessage
\* One received request is answered with one response carrying its id:
\* type RESULT with the handler's data, or ERROR with the thrown message.
WorkerOnMessage(req, ok) ==
    /\ terminateCalls = 0
    /\ req \in inbox
    /\ inbox' = inbox \ {req}
    /\ responses' = responses \cup
         {IF ok THEN WorkerResponse(req.id, RESULT, [msg |-> "data", of |-> req.id], NoValue)
                ELSE WorkerResponse(req.id, ERROR, NoValue, [msg |-> "failed", of |-> req.id])}
    /\ UNCHANGED <<requestId, pendingRequests, timers, isDisposed, terminateCalls, issued,
                   settled, disposePc, disposeReq, pendingAtDispose, rejectedCalls>>

\* -------------------------------------------------------------- the system
\* The module holds several systems, each over its own variables: one proxy on
\* its worker (vars), two proxies on one worker (sharedVars).  A system leaves
\* the variables of the others at their initial values.
Proxies == {"A", "B"}

SharedInit ==
    /\ sConstructed = {}
    /\ sOnmessage = "none"
    /\ sRequestId = [p \in Proxies |-> 0]
    /\ sPending = [p \in Proxies |-> EmptyMap]
    /\ sInbox = {}
    /\ sResponses = {}
    /\ sSettled = {}

\* new ONNXWorkerRuntime(); no message received yet
RuntimeInit ==
    /\ isInitialized = FALSE
    /\ config = "null"
    /\ models = EmptyMap
    /\ released = {}
    /\ received = <<>>
    /\ handler = <<>>
    /\ posted = <<>>

\* no ONNXWebFramework constructed
NoOptions == [enableCache |-> FALSE, cacheMaxAge |-> 0]

\* new ModelCache() on an empty database
CacheInit ==
    /\ now = 0
    /\ db = 0
    /\ store = EmptyMap
    /\ txQueue = <<>>
    /\ ops = <<>>
    /\ options = NoOptions
    /\ frameworkInitialized = FALSE

\* headers.get(name) of a header the response does not carry
NoHeader == 0 - 1

\* no getModel call has reached the network yet
DownloadInit ==
    /\ resource = 0
    /\ getModelPc = "idle"
    /\ supportsRange = FALSE
    /\ contentLength = NoHeader
    /\ headEtag = "null"
    /\ chunkStart = 0
    /\ chunks = <<>>
    /\ downloaded = 0
    /\ fetches = <<>>
    /\ modelArray = <<>>
    /\ puts = <<>>
    /\ thrown = [method |-> "", first |-> 0, last |-> 0]

InitAll == Init /\ SharedInit /\ RuntimeInit /\ CacheInit /\ DownloadInit

ProxyOnly == UNCHANGED <<sharedVars, runtimeVars, cacheVars, downloadVars>>

NextFor(types) ==
    \/ \E type \in types, sendOk \in BOOLEAN : Call(type, sendOk) /\ ProxyOnly
    \/ \E res \in responses : HandleMessage(res) /\ ProxyOnly
    \/ HandleError /\ ProxyOnly
    \/ \E n \in timers : TimeoutFire(n) /\ ProxyOnly
    \/ \E k \in 1..MaxDisposeCalls, sendOk \in BOOLEAN : DisposeStart(k, sendOk) /\ ProxyOnly
    \/ \E k \in 1..MaxDisposeCalls : DisposeRejectAll(k) /\ ProxyOnly
    \/ \E k \in 1..MaxDisposeCalls : DisposeTerminate(k) /\ ProxyOnly
    \/ \E k \in 1..MaxDisposeCalls : DisposeMark(k) /\ ProxyOnly
    \/ \E req \in inbox, ok \in BOOLEAN : WorkerOnMessage(req, ok) /\ ProxyOnly

Next == NextFor(CallTypes)

Spec == InitAll /\ [][Next]_vars

\* The same system with calls of one type only (the type is a tag of the
\* message and of the timeout error; no branch of the proxy reads it).
LiveCallTypes == {RUN_INFERENCE}

LiveNext == NextFor(LiveCallTypes)

\* Scheduling the JavaScript event loop guarantees: a scheduled timer that is
\* not cleared eventually fires, and a resumed dispose() runs to its end.
LiveSpec ==
    /\ InitAll /\ [][LiveNext]_vars
    /\ \A n \in 1..(MaxRequests + 1) : WF_vars(TimeoutFire(n))
    /\ \A k \in 1..MaxDisposeCalls :
          WF_vars(DisposeRejectAll(k)) /\ WF_vars(DisposeTerminate(k)) /\ WF_vars(DisposeMark(k))

\* ------------------------------------------- two proxies on one Worker object
\* new ONNXWorkerProxy(worker) run twice with the same worker.  The constructor
\* ASSIGNS worker.onmessage (and worker.onerror): the worker object has one
\* handler slot, so the proxy constructed last owns it.  Each proxy counts its
\* ids from 0.  `from` is the proxy whose request a message belongs to; the
\* code reads only the id.  Every send succeeds and no proxy is disposed here.
SharedRequestMsg(id, type, p) == [id |-> id, type |-> type, from |-> p]

SharedSettlement(p, id, how, by, of, from) ==
    [proxy |-> p, id |-> id, how |-> how, by |-> by, of |-> of, from |-> from]

\* constructor(worker)
SharedConstruct(p) ==
    /\ p \notin sConstructed
    /\ sConstructed' = sConstructed \cup {p}
    /\ sRequestId' = [sRequestId EXCEPT ![p] = 0]
    /\ sPending' = [sPending EXCEPT ![p] = EmptyMap]
    /\ sOnmessage' = p
    /\ UNCHANGED <<sInbox, sResponses, sSettled>>

\* _request(type, data) of proxy p
SharedRequest(p, type) ==
    /\ p \in sConstructed
    /\ sRequestId[p] < MaxSharedRequests
    /\ LET id == NextRequestId(sRequestId[p])
       IN  /\ sRequestId' = [sRequestId EXCEPT ![p] = id]
           /\ sPending' = [sPending EXCEPT ![p] = MapSet(@, id, id)]
           /\ sInbox' = sInbox \cup {SharedRequestMsg(id, type, p)}
    /\ UNCHANGED <<sConstructed, sOnmessage, sResponses, sSettled>>

\* self.onmessage of the worker: one response carrying the id of the request
SharedWorkerOnMessage(req, ok) ==
    /\ req \in sInbox
    /\ sInbox' = sInbox \ {req}
    /\ sResponses' = sResponses \cup
         {[id |-> req.id, type |-> IF ok THEN RESULT ELSE ERROR, from |-> req.from]}
    /\ UNCHANGED <<sConstructed, sOnmessage, sRequestId, sPending, sSettled>>

\* the message event of the worker object: it runs the one handler in
\* worker.onmessage, that is _handleMessage of the proxy sOnmessage
SharedHandleMessage(res) ==
    /\ res \in sResponses
    /\ sOnmessage \in Proxies
    /\ sResponses' = sResponses \ {res}
    /\ LET q == sOnmessage
           n == GetPending(sPending[q], res.id)
       IN  IF n = 0
           THEN UNCHANGED <<sPending, sSettled>>
           ELSE /\ sPending' = [sPending EXCEPT ![q] = MapDelete(@, res.id)]
                /\ sSettled' = sSettled \cup
                     {SharedSettlement(q, n, IF res.type = ERROR THEN "rejected" ELSE "resolved",
                                       res.type, res.id, res.from)}
    /\ UNCHANGED <<sConstructed, sOnmessage, sRequestId, sInbox>>

\* timer callback of _request of proxy p for request id
SharedTimeoutFire(p, id) ==
    /\ id \in DOMAIN sPending[p]
    /\ sPending' = [sPending EXCEPT ![p] = TimeoutDelete(@, id)]
    /\ sSettled' = sSettled \cup {SharedSettlement(p, id, "rejected", "timeout", 0, p)}
    /\ UNCHANGED <<sConstructed, sOnmessage, sRequestId, sInbox, sResponses>>

SharedOnly == UNCHANGED <<vars, runtimeVars, cacheVars, downloadVars>>

SharedNext ==
    \/ \E p \in Proxies : SharedConstruct(p) /\ SharedOnly
    \/ \E p \in Proxies, type \in LiveCallTypes : SharedRequest(p, type) /\ SharedOnly
    \/ \E req \in sInbox, ok \in BOOLEAN : SharedWorkerOnMessage(req, ok) /\ SharedOnly
    \/ \E res \in sResponses : SharedHandleMessage(res) /\ SharedOnly
    \/ \E p \in Proxies, id \in 1..MaxSharedRequests : SharedTimeoutFire(p, id) /\ SharedOnly

SharedSpec == InitAll /\ [][SharedNext]_sharedVars

\* ------------------------------------------------ the worker runtime: pieces
\* a message type that no case of the switch in self.onmessage names
UNKNOWN == "unknown_type"

ModelNames == {"m", "n"}

\* req.config of an initialize message: missing, or a configuration object
Configs == {"none", "c1"}

Message(id, type, modelName, cfg) ==
    [id |-> id, type |-> type, modelName |-> modelName, config |-> cfg]

\* the messages the worker may receive as its id-th message
Messages(id) ==
    {Message(id, INITIALIZE, "", c) : c \in Configs}
    \cup {Message(id, t, x, "none") : t \in {LOAD_MODEL, RUN_INFERENCE}, x \in ModelNames}
    \cup {Message(id, t, "", "none") : t \in {DISPOSE, UNKNOWN}}

\* runtime.initialize(req.config || {})
ConfigOf(req) == IF req.config = "none" THEN "{}" ELSE req.config

\* payloads of a response: what it is and the model it names
NoData == [msg |-> "", name |-> ""]

Data(msg, name) == [msg |-> msg, name |-> name]

\* 'Worker not initialized. Call initialize() first.'
NotInitializedError == Data("Worker not initialized", "")

\* `Model '${req.modelName}' not loaded. Call loadModel() first.`
NotLoadedError(name) == Data("not loaded", name)

\* response = new WorkerResponse(req.id, RESULT); response.data = ...
ResultResponse(req, data) == WorkerResponse(req.id, RESULT, data, NoData)

\* catch: response.type = ERROR; response.error = error.message
ErrorResponseTypeKept(req, err) == WorkerResponse(req.id, RESULT, NoData, err)

ErrorResponse(req, err) == WorkerResponse(req.id, ERROR, NoData, err)

\* if (!this.isInitialized) throw ...     (guard of loadModel and runInference)
NotInitializedGuardMissing(init) == FALSE

NotInitializedGuard(init) == ~init

\* this.isInitialized once initialize() has run
InitializedToggled(init) == ~init

InitializedAfterInitialize(init) == TRUE

\* const session = this.models.get(req.modelName): 0 when there is none
AnySession(ms, name) == IF DOMAIN ms # {} THEN ms[CHOOSE x \in DOMAIN ms : TRUE] ELSE 0

GetSession(ms, name) == IF name \in DOMAIN ms THEN ms[name] ELSE 0

\* dispose: this.models.clear()
ModelsClearForgotten(ms) == ms

ModelsClear(ms) == EmptyMap

\* where a handler stands:
\*   pc      - "creating": loadModel awaits InferenceSession.create
\*             "running":  runInference awaits session.run
\*             "releasing": dispose awaits session.release of entry `cur`
\*             "done":     the response has been posted
\*   seen    - dispose: the entries of this.models its loop has gone through
\*   session - the session the handler passed to session.run (0: none)
Handler(pc, cur, seen, session) == [pc |-> pc, cur |-> cur, seen |-> seen, session |-> session]

Done(session) == Handler("done", "", {}, session)

InProgress(n) == handler[n].pc # "done"

\* this.models.clear() empties the map under every loop that is going through it
LoopsRestarted(h) ==
    [i \in DOMAIN h |-> IF h[i].pc = "releasing" THEN Handler("releasing", "", {}, 0) ELSE h[i]]

\* ----------------------------------------------- the worker runtime: handlers
\* self.onmessage is an async function: the handler of a message runs up to
\* its first await of an operation of the ONNX runtime (create, run, release)
\* when the message is dispatched, and goes on when that operation ends; other
\* messages are dispatched in between.  An await of something already settled
\* (initialize, a guard that throws) goes on before the next message.

\* the handler ends: self.postMessage(response)
Finish(resp, session) ==
    /\ handler' = Append(handler, Done(session))
    /\ posted' = Append(posted, resp)

\* case INITIALIZE: runtime.initialize(req.config || {})
Initialize(req) ==
    /\ config' = ConfigOf(req)
    /\ isInitialized' = InitializedAfterInitialize(isInitialized)
    /\ Finish(ResultResponse(req, Data("success", "")), 0)
    /\ UNCHANGED <<models, released>>

\* case LOAD_MODEL: runtime.loadModel(req) up to await InferenceSession.create
LoadModel(req) ==
    /\ IF NotInitializedGuard(isInitialized)
       THEN Finish(ErrorResponse(req, NotInitializedError), 0)
       ELSE /\ handler' = Append(handler, Handler("creating", "", {}, 0))
            /\ UNCHANGED posted
    /\ UNCHANGED <<isInitialized, config, models, released>>

\* case RUN_INFERENCE: runtime.runInference(req) up to await session.run(feeds);
\* feedsOk = FALSE is the conversion of req.inputs to tensors throwing
RunInference(req, feedsOk) ==
    /\ LET session == GetSession(models, req.modelName)
       IN  IF NotInitializedGuard(isInitialized)
           THEN Finish(ErrorResponse(req, NotInitializedError), 0)
           ELSE IF session = 0
           THEN Finish(ErrorResponse(req, NotLoadedError(req.modelName)), 0)
           ELSE IF ~feedsOk
           THEN Finish(ErrorResponse(req, Data("inference failed", req.modelName)), 0)
           ELSE /\ handler' = Append(handler, Handler("running", "", {}, session))
                /\ UNCHANGED posted
    /\ UNCHANGED <<isInitialized, config, models, released>>

\* case DISPOSE: runtime.dispose() up to its first await session.release();
\* with no entry in this.models the loop body never runs.  (The loop takes the
\* entries in insertion order; the model lets it take them in any order.)
RuntimeDispose(req) ==
    IF DOMAIN models = {}
    THEN /\ models' = ModelsClear(models)
         /\ isInitialized' = FALSE
         /\ handler' = Append(LoopsRestarted(handler), Done(0))
         /\ posted' = Append(posted, ResultResponse(req, Data("success", "")))
         /\ UNCHANGED <<config, released>>
    ELSE /\ \E x \in DOMAIN models :
               /\ released' = released \cup {models[x]}
               /\ handler' = Append(handler, Handler("releasing", x, {}, 0))
         /\ UNCHANGED <<isInitialized, config, models, posted>>

\* default: throw new Error(`Unknown message type: ${req.type}`)
UnknownType(req) ==
    /\ Finish(ErrorResponse(req, Data("Unknown message type", "")), 0)
    /\ UNCHANGED <<isInitialized, config, models, released>>

\* the message event of the worker: self.onmessage(e) with e.data = msg
OnMessage(msg, feedsOk) ==
    /\ Len(received) < MaxMessages
    /\ msg \in Messages(Len(received) + 1)
    /\ feedsOk \/ (msg.type = RUN_INFERENCE /\ isInitialized /\ msg.modelName \in DOMAIN models)
    /\ received' = Append(received, msg)
    /\ CASE msg.type = INITIALIZE -> Initialize(msg)
         [] msg.type = LOAD_MODEL -> LoadModel(msg)
         [] msg.type = RUN_INFERENCE -> RunInference(msg, feedsOk)
         [] msg.type = DISPOSE -> RuntimeDispose(msg)
         [] OTHER -> UnknownType(msg)

\* a catch that drops the name whose load failed
CreateDoneFailureDeletes(n, ok) ==
    /\ n \in DOMAIN handler
    /\ handler[n].pc = "creating"
    /\ handler' = [handler EXCEPT ![n] = Done(0)]
    /\ IF ok
       THEN /\ models' = MapSet(models, received[n].modelName, n)
            /\ posted' = Append(posted, ResultResponse(received[n],
                                          Data("ModelInfo", received[n].modelName)))
       ELSE /\ models' = MapDelete(models, received[n].modelName)
            /\ posted' = Append(posted, ErrorResponse(received[n],
                                          Data("create failed", received[n].modelName)))
    /\ UNCHANGED <<isInitialized, config, released, received>>
\* InferenceSession.create ends: this.models.set(req.modelName, session) and
\* the result, or the error rethrown to the catch of self.onmessage
CreateDone(n, ok) ==
    /\ n \in DOMAIN handler
    /\ handler[n].pc = "creating"
    /\ handler' = [handler EXCEPT ![n] = Done(0)]
    /\ IF ok
       THEN /\ models' = MapSet(models, received[n].modelName, n)
            /\ posted' = Append(posted, ResultResponse(received[n],
                                          Data("ModelInfo", received[n].modelName)))
       ELSE /\ models' = models
            /\ posted' = Append(posted, ErrorResponse(received[n],
                                          Data("create failed", received[n].modelName)))
    /\ UNCHANGED <<isInitialized, config, released, received>>

\* session.run ends: the converted output, or the error rethrown
RunDone(n, ok) ==
    /\ n \in DOMAIN handler
    /\ handler[n].pc = "running"
    /\ handler' = [handler EXCEPT ![n] = Done(handler[n].session)]
    /\ posted' = Append(posted,
          IF ok THEN ResultResponse(received[n], Data("output", received[n].modelName))
                ELSE ErrorResponse(received[n], Data("inference failed", received[n].modelName)))
    /\ UNCHANGED <<isInitialized, config, models, released, received>>

\* session.release() ends: the loop of dispose goes to the next entry, or ends
\* (this.models.clear(); this.isInitialized = false); a release that throws
\* ends dispose() at once, with the error response
ReleaseDone(n, ok) ==
    /\ n \in DOMAIN handler
    /\ handler[n].pc = "releasing"
    /\ LET seen1 == handler[n].seen \cup ({handler[n].cur} \ {""})
           rest == DOMAIN models \ seen1
       IN  IF ~ok
           THEN /\ handler' = [handler EXCEPT ![n] = Done(0)]
                /\ posted' = Append(posted, ErrorResponse(received[n], Data("release failed", "")))
                /\ UNCHANGED <<isInitialized, models, released>>
           ELSE IF rest = {}
           THEN /\ models' = ModelsClear(models)
                /\ isInitialized' = FALSE
                /\ handler' = [LoopsRestarted(handler) EXCEPT ![n] = Done(0)]
                /\ posted' = Append(posted, ResultResponse(received[n], Data("success", "")))
                /\ UNCHANGED released
           ELSE /\ \E x \in rest :
                      /\ released' = released \cup {models[x]}
                      /\ handler' = [handler EXCEPT ![n] = Handler("releasing", x, seen1, 0)]
                /\ UNCHANGED <<isInitialized, models, posted>>
    /\ UNCHANGED <<config, received>>

RuntimeOnly == UNCHANGED <<vars, sharedVars, cacheVars, downloadVars>>

WorkerNext ==
    \/ \E msg \in Messages(Len(received) + 1), feedsOk \in BOOLEAN :
          OnMessage(msg, feedsOk) /\ RuntimeOnly
    \/ \E n \in DOMAIN handler, ok \in BOOLEAN : CreateDone(n, ok) /\ RuntimeOnly
    \/ \E n \in DOMAIN handler, ok \in BOOLEAN : RunDone(n, ok) /\ RuntimeOnly
    \/ \E n \in DOMAIN handler, ok \in BOOLEAN : ReleaseDone(n, ok) /\ RuntimeOnly

WorkerSpec == InitAll /\ [][WorkerNext]_runtimeVars

\* ------------------------------------------------------ the model cache: pieces
\* const maxAge = 24 * 60 * 60 * 1000   (milliseconds)
maxAge == 24 * 60 * 60 * 1000

\* one url: every entry of the store is keyed by it
URLs == {"u"}

\* the bodies a server may send, and their byteLength: "p0" is the empty body
Payloads == {"p0", "p1"}

ByteLength(data) == IF data = "p0" THEN 0 ELSE 3

\* a property that is not there
undefined == 0 - 2

\* size: data.byteLength always
RecordSizeIsLength(data, isUint8Array) == ByteLength(data)

\* size: data.byteLength || data.length: an ArrayBuffer (the body of the
\* whole-resource GET) has no length, a Uint8Array (downloadInChunks) has one
RecordSize(data, isUint8Array) ==
    IF ByteLength(data) # 0 THEN ByteLength(data)
    ELSE IF isUint8Array THEN 0 ELSE undefined

\* modelRecord of cacheModel
Record(url, data, timestamp, etag, isUint8Array) ==
    [url |-> url, data |-> data, timestamp |-> timestamp, etag |-> etag,
     size |-> RecordSize(data, isUint8Array)]

\* if (Date.now() - cached.timestamp > maxAge)
ExpiredAtBoundary(t, timestamp) == t - timestamp >= maxAge

ExpiredNever(t, timestamp) == FALSE

Expired(t, timestamp) == t - timestamp > maxAge

\* the instants at which something happens: 0, maxAge, maxAge + 1,
\* 2 * maxAge + 1, 2 * maxAge + 2, ... (steps of maxAge and of one millisecond
\* in turn); the number of the instant t, and the instant after t
Ticks(t) == 2 * (t \div (maxAge + 1)) + (IF t % (maxAge + 1) = 0 THEN 0 ELSE 1)

NextInstant(t) == IF t % (maxAge + 1) = 0 THEN t + maxAge ELSE t + 1

\* what the HEAD request gives: "fail" (fetch rejects), "ranged" (Accept-Ranges:
\* bytes, a Content-Length above 10 MiB and an ETag), "whole" (none of the
\* three headers)
HeadResponses == {"fail", "whole", "ranged"}

\* const etag = headResponse.headers.get('ETag')
EtagOf(h) == IF h = "ranged" THEN "e1" ELSE "null"

\* the range requests downloadInChunks issues for the large resource
NumChunks == 2

\* a transaction on the object store with its one request
Tx(kind, op, url, record) == [kind |-> kind, op |-> op, url |-> url, record |-> record]

NoRecord == [url |-> "", data |-> "", timestamp |-> 0, etag |-> "", size |-> 0]

NoStats == [count |-> 0 - 1, totalSize |-> 0, models |-> {}]

\* one call on the cache.  kind is the method called: getModel, getStats or
\* cleanup of ModelCache; initialize, loadModel, clearCache or getCacheStats
\* of ONNXWebFramework, which call those.
\*   pc     - "opening" (awaits init), "lookup" (awaits store.get of isCached),
\*            "head", "get", "chunk" (awaits that response), "put" (awaits the
\*            store.put of cacheModel), "stats" (awaits store.getAll),
\*            "cleanup" (awaits the cursor of cleanup), "create" (loadModel
\*            awaits InferenceSession.create), "done" (resolved), "failed" (rejected)
\*   found  - what isCached found: "" (not yet), "none", "fresh", "expired"
\*   net    - the network requests the call issued, in order: "HEAD", "GET", "RANGE"
\*   from, data - where the returned bytes came from, and the bytes
\*   etag   - the ETag of the HEAD response
\*   cutoff - cutoffTime of cleanup
\*   existing - cleanup: the records (url, timestamp) in the store when it was called
\*   source, attempt - loadModel: its modelSource, and whether getModel runs
\*            for the .ort url (1) or for modelSource (2)
\*   error  - the store request of the call that failed (request.onerror):
\*            "" (none), "open", "get", "put", "getAll", "cursor"
Op(kind, url, pc) ==
    [kind |-> kind, url |-> url, pc |-> pc, found |-> "", chunk |-> 0, net |-> <<>>,
     from |-> "", data |-> "", stats |-> NoStats, etag |-> "null", cutoff |-> 0,
     source |-> url, attempt |-> 1, existing |-> {}, error |-> ""]

\* models.reduce((sum, model) => sum + (model.size || 0), 0)
SizeOrZero(size) == IF size = undefined THEN 0 ELSE size

RECURSIVE TotalSize(_, _)
TotalSize(st, urls) ==
    IF urls = {} THEN 0
    ELSE LET u == CHOOSE x \in urls : TRUE
         IN  SizeOrZero(st[u].size) + TotalSize(st, urls \ {u})

\* the stats object of getStats: every record store.getAll() returned
Stats(st, t) ==
    [count |-> Cardinality(DOMAIN st),
     totalSize |-> TotalSize(st, DOMAIN st),
     models |-> {[url |-> u, size |-> st[u].size, timestamp |-> st[u].timestamp,
                  age |-> t - st[u].timestamp] : u \in DOMAIN st}]

\* the transaction a call creates once this.db is set
FirstPc(kind) ==
    CASE kind \in {"getModel", "loadModel"} -> "lookup"
      [] kind \in {"getStats", "getCacheStats"} -> "stats"
      [] kind \in {"cleanup", "clearCache", "initialize"} -> "cleanup"

FirstTx(c, kind, url) ==
    CASE FirstPc(kind) = "lookup" -> Tx("get", c, url, NoRecord)
      [] FirstPc(kind) = "stats" -> Tx("getAll", c, "", NoRecord)
      [] FirstPc(kind) = "cleanup" -> Tx("cleanup", c, "", NoRecord)

\* const cutoffTime = Date.now() - maxAge
CutoffTime(t) == t - maxAge

\* the call when its first transaction is created; cleanup reads the clock
Started(op, t) ==
    [op EXCEPT !.pc = FirstPc(op.kind),
               !.cutoff = IF FirstPc(op.kind) = "cleanup" THEN CutoffTime(t) ELSE 0]

\* a cursor whose delete drops the bytes of the record and leaves the rest
AfterCleanupTorn(st, cutoff) ==
    [u \in DOMAIN st |-> IF st[u].timestamp > cutoff THEN st[u]
                         ELSE [st[u] EXCEPT !.data = "", !.size = 0]]
\* index.openCursor(IDBKeyRange.upperBound(cutoffTime), true): the bound left out
AfterCleanupOpenBound(st, cutoff) ==
    [u \in {x \in DOMAIN st : st[x].timestamp >= cutoff} |-> st[u]]

\* index.openCursor(IDBKeyRange.upperBound(cutoffTime)) with cursor.delete() on
\* every record it yields: the records of timestamp <= cutoffTime go
AfterCleanup(st, cutoff) ==
    [u \in {x \in DOMAIN st : st[x].timestamp > cutoff} |-> st[u]]

\* the records of the store, by url and timestamp
Existing(st) == {<<u, st[u].timestamp>> : u \in DOMAIN st}

\* what a call that has its bytes goes on to
Got(kind) == IF kind = "loadModel" THEN "create" ELSE "done"

\* ---------------------------------------------------- the model cache: actions
\* Every step below is one callback of the event loop together with the
\* continuations it resumes.  The transactions on the object store run in the
\* order of their creation (txQueue); a request's onsuccess runs inside its
\* transaction.  Store requests and the open of the database succeed here;
\* network requests may fail.

\* a method of ModelCache is called: if (!this.db) await this.init(), else its
\* transaction is created at once
Start(call) ==
    /\ Len(ops) < MaxOps
    /\ LET op == [call EXCEPT !.pc = "opening",
                     !.existing = IF FirstPc(call.kind) = "cleanup" THEN Existing(store) ELSE {}]
       IN  IF db = 0
           THEN /\ ops' = Append(ops, op)
                /\ UNCHANGED txQueue
           ELSE /\ ops' = Append(ops, Started(op, now))
                /\ txQueue' = Append(txQueue, FirstTx(Len(ops) + 1, op.kind, op.url))
    /\ UNCHANGED <<now, db, store, options, frameworkInitialized>>

StartOp(kind, url) == Start(Op(kind, url, "opening"))

GetModel(url) == StartOp("getModel", url)

GetStats == StartOp("getStats", "")

Cleanup == StartOp("cleanup", "")

\* init: request.onsuccess sets this.db; the waiting call creates its transaction
InitSuccess(c) ==
    /\ c \in DOMAIN ops
    /\ ops[c].pc = "opening"
    /\ db' = c
    /\ ops' = [ops EXCEPT ![c] = Started(ops[c], now)]
    /\ txQueue' = Append(txQueue, FirstTx(c, ops[c].kind, ops[c].url))
    /\ UNCHANGED <<now, store, options, frameworkInitialized>>

\* isCached: request.onsuccess of store.get(url), and getModel up to its next
\* await: a hit returns cached.data; a miss issues the HEAD request.  For an
\* expired record removeFromCache(url) is called and not awaited: its
\* transaction is created, and getModel goes on.
IsCachedSuccess(c) ==
    /\ txQueue # <<>>
    /\ Head(txQueue).kind = "get"
    /\ Head(txQueue).op = c
    /\ LET url == ops[c].url
           miss(found) == [ops EXCEPT ![c].found = found, ![c].pc = "head",
                                      ![c].net = Append(@, "HEAD")]
       IN  IF url \notin DOMAIN store
           THEN /\ ops' = miss("none")
                /\ txQueue' = Tail(txQueue)
           ELSE IF Expired(now, store[url].timestamp)
           THEN /\ ops' = miss("expired")
                /\ txQueue' = Append(Tail(txQueue), Tx("delete", c, url, NoRecord))
           ELSE /\ ops' = [ops EXCEPT ![c].found = "fresh", ![c].pc = Got(ops[c].kind),
                                      ![c].from = "cache", ![c].data = store[url].data]
                /\ txQueue' = Tail(txQueue)
    /\ UNCHANGED <<now, db, store, options, frameworkInitialized>>

\* removeFromCache: store.delete(url) runs
RemoveFromCacheSuccess ==
    /\ txQueue # <<>>
    /\ Head(txQueue).kind = "delete"
    /\ store' = MapDelete(store, Head(txQueue).url)
    /\ txQueue' = Tail(txQueue)
    /\ UNCHANGED <<now, db, ops, options, frameworkInitialized>>

\* cacheModel(url, modelArray, etag): the record is built with Date.now() and
\* the transaction of store.put is created
CacheModel(c, data) ==
    /\ ops' = [ops EXCEPT ![c].pc = "put", ![c].data = data]
    /\ txQueue' = Append(txQueue, Tx("put", c, ops[c].url,
                     Record(ops[c].url, data, now, ops[c].etag, ops[c].chunk > 0)))

\* getModel rethrows the error of a network step.  loadModel catches what
\* getModel(ortSource) throws and calls getModel(modelSource): isCached
\* creates its transaction at once, this.db being set.
Throw(c) ==
    IF ops[c].kind = "loadModel" /\ ops[c].attempt = 1
    THEN /\ ops' = [ops EXCEPT ![c].attempt = 2, ![c].url = ops[c].source, ![c].pc = "lookup",
                               ![c].found = "", ![c].chunk = 0, ![c].data = "",
                               ![c].etag = "null"]
         /\ txQueue' = Append(txQueue, Tx("get", c, ops[c].source, NoRecord))
    ELSE /\ ops' = [ops EXCEPT ![c].pc = "failed"]
         /\ UNCHANGED txQueue

\* the HEAD request ends
HeadResponse(c, h) ==
    /\ c \in DOMAIN ops
    /\ ops[c].pc = "head"
    /\ CASE h = "fail" -> Throw(c)
         [] h = "whole" ->
              /\ ops' = [ops EXCEPT ![c].pc = "get", ![c].net = Append(@, "GET"),
                                    ![c].etag = EtagOf(h)]
              /\ UNCHANGED txQueue
         [] h = "ranged" ->
              /\ ops' = [ops EXCEPT ![c].pc = "chunk", ![c].chunk = 1,
                                    ![c].net = Append(@, "RANGE"), ![c].etag = EtagOf(h)]
              /\ UNCHANGED txQueue
    /\ UNCHANGED <<now, db, store, options, frameworkInitialized>>

\* the whole-resource GET ends: body = "fail" is a rejected fetch, a response
\* that is not ok, or a body that cannot be read
FetchResponse(c, body) ==
    /\ c \in DOMAIN ops
    /\ ops[c].pc = "get"
    /\ IF body = "fail" THEN Throw(c) ELSE CacheModel(c, body)
    /\ UNCHANGED <<now, db, store, options, frameworkInitialized>>

\* a range request of downloadInChunks ends; the chunks of one download come
\* from one version of the resource
ChunkResponse(c, body) ==
    /\ c \in DOMAIN ops
    /\ ops[c].pc = "chunk"
    /\ ops[c].chunk > 1 /\ body # "fail" => body = ops[c].data
    /\ IF body = "fail"
       THEN Throw(c)
       ELSE IF ops[c].chunk < NumChunks
       THEN /\ ops' = [ops EXCEPT ![c].chunk = @ + 1, ![c].data = body,
                                  ![c].net = Append(@, "RANGE")]
            /\ UNCHANGED txQueue
       ELSE CacheModel(c, body)
    /\ UNCHANGED <<now, db, store, options, frameworkInitialized>>

\* store.add(modelRecord) in place of store.put: an entry already there stays
CacheModelSuccessAdd(c) ==
    /\ txQueue # <<>>
    /\ Head(txQueue).kind = "put"
    /\ Head(txQueue).op = c
    /\ store' = IF Head(txQueue).url \in DOMAIN store
                THEN store
                ELSE MapSet(store, Head(txQueue).url, Head(txQueue).record)
    /\ txQueue' = Tail(txQueue)
    /\ ops' = [ops EXCEPT ![c].pc = Got(ops[c].kind), ![c].from = "network"]
    /\ UNCHANGED <<now, db, options, frameworkInitialized>>
\* cacheModel: store.put(modelRecord) runs; getModel returns modelArray
CacheModelSuccess(c) ==
    /\ txQueue # <<>>
    /\ Head(txQueue).kind = "put"
    /\ Head(txQueue).op = c
    /\ store' = MapSet(store, Head(txQueue).url, Head(txQueue).record)
    /\ txQueue' = Tail(txQueue)
    /\ ops' = [ops EXCEPT ![c].pc = Got(ops[c].kind), ![c].from = "network"]
    /\ UNCHANGED <<now, db, options, frameworkInitialized>>

\* getStats: request.onsuccess of store.getAll()
GetStatsSuccess(c) ==
    /\ txQueue # <<>>
    /\ Head(txQueue).kind = "getAll"
    /\ Head(txQueue).op = c
    /\ ops' = [ops EXCEPT ![c].pc = "done", ![c].stats = Stats(store, now)]
    /\ txQueue' = Tail(txQueue)
    /\ UNCHANGED <<now, db, store, options, frameworkInitialized>>

\* cleanup: the cursor runs over the records up to cutoffTime and deletes
\* them, all inside the one readwrite transaction.  initialize() of the
\* framework goes on: this.isInitialized = true, then modelCache.getStats().
CleanupSuccess(c) ==
    /\ txQueue # <<>>
    /\ Head(txQueue).kind = "cleanup"
    /\ Head(txQueue).op = c
    /\ store' = AfterCleanup(store, ops[c].cutoff)
    /\ IF ops[c].kind = "initialize"
       THEN /\ frameworkInitialized' = TRUE
            /\ ops' = [ops EXCEPT ![c].pc = "stats"]
            /\ txQueue' = Append(Tail(txQueue), Tx("getAll", c, "", NoRecord))
       ELSE /\ ops' = [ops EXCEPT ![c].pc = "done"]
            /\ txQueue' = Tail(txQueue)
            /\ UNCHANGED frameworkInitialized
    /\ UNCHANGED <<now, db, options>>

\* time passes
Tick ==
    /\ Ticks(now) < MaxTicks
    /\ now' = NextInstant(now)
    /\ UNCHANGED <<db, store, txQueue, ops, options, frameworkInitialized>>

CacheOnly == UNCHANGED <<vars, sharedVars, runtimeVars, downloadVars>>

CacheNext ==
    \/ \E url \in URLs : GetModel(url) /\ CacheOnly
    \/ GetStats /\ CacheOnly
    \/ Cleanup /\ CacheOnly
    \/ \E c \in DOMAIN ops : InitSuccess(c) /\ CacheOnly
    \/ \E c \in DOMAIN ops : IsCachedSuccess(c) /\ CacheOnly
    \/ RemoveFromCacheSuccess /\ CacheOnly
    \/ \E c \in DOMAIN ops, h \in HeadResponses : HeadResponse(c, h) /\ CacheOnly
    \/ \E c \in DOMAIN ops, body \in Payloads \cup {"fail"} : FetchResponse(c, body) /\ CacheOnly
    \/ \E c \in DOMAIN ops, body \in Payloads \cup {"fail"} : ChunkResponse(c, body) /\ CacheOnly
    \/ \E c \in DOMAIN ops : CacheModelSuccess(c) /\ CacheOnly
    \/ \E c \in DOMAIN ops : GetStatsSuccess(c) /\ CacheOnly
    \/ \E c \in DOMAIN ops : CleanupSuccess(c) /\ CacheOnly
    \/ Tick /\ CacheOnly

CacheSpec == InitAll /\ [][CacheNext]_cacheVars

\* ------------------------------------------- the model cache: a store that fails
\* The calls of ModelCache on a store whose open and whose requests may fail
\* (request.onerror).  A failed request aborts its transaction: the store is
\* as it was.

\* { count: 0, totalSize: 0, models: [] }
EmptyStats == [count |-> 0, totalSize |-> 0, models |-> {}]

\* reject(request.error): the call rejects with the error of the store
RejectWith(c, error) == [ops EXCEPT ![c].pc = "failed", ![c].error = error]

\* init: request.onerror of indexedDB.open; this.db stays null
InitError(c) ==
    /\ c \in DOMAIN ops
    /\ ops[c].pc = "opening"
    /\ ops' = RejectWith(c, "open")
    /\ UNCHANGED <<now, db, store, txQueue, options, frameworkInitialized>>

\* isCached: request.onerror of store.get(url) is () => resolve(null), and
\* getModel goes on as after a miss: it issues the HEAD request
IsCachedError(c) ==
    /\ txQueue # <<>>
    /\ Head(txQueue).kind = "get"
    /\ Head(txQueue).op = c
    /\ ops' = [ops EXCEPT ![c].found = "none", ![c].pc = "head",
                          ![c].net = Append(@, "HEAD"), ![c].error = "get"]
    /\ txQueue' = Tail(txQueue)
    /\ UNCHANGED <<now, db, store, options, frameworkInitialized>>

\* removeFromCache: request.onerror of store.delete(url) rejects a promise
\* that isCached did not keep
RemoveFromCacheError ==
    /\ txQueue # <<>>
    /\ Head(txQueue).kind = "delete"
    /\ txQueue' = Tail(txQueue)
    /\ UNCHANGED <<now, db, store, ops, options, frameworkInitialized>>

\* cacheModel: request.onerror of store.put rejects; getModel rethrows
CacheModelError(c) ==
    /\ txQueue # <<>>
    /\ Head(txQueue).kind = "put"
    /\ Head(txQueue).op = c
    /\ ops' = RejectWith(c, "put")
    /\ txQueue' = Tail(txQueue)
    /\ UNCHANGED <<now, db, store, options, frameworkInitialized>>

\* getStats: request.onerror of store.getAll() is
\* () => resolve({ count: 0, totalSize: 0, models: [] })
GetStatsError(c) ==
    /\ txQueue # <<>>
    /\ Head(txQueue).kind = "getAll"
    /\ Head(txQueue).op = c
    /\ ops' = [ops EXCEPT ![c].pc = "done", ![c].stats = EmptyStats, ![c].error = "getAll"]
    /\ txQueue' = Tail(txQueue)
    /\ UNCHANGED <<now, db, store, options, frameworkInitialized>>

\* cleanup: request.onerror of the cursor rejects; the deletes of the aborted
\* transaction are undone
CleanupError(c) ==
    /\ txQueue # <<>>
    /\ Head(txQueue).kind = "cleanup"
    /\ Head(txQueue).op = c
    /\ ops' = RejectWith(c, "cursor")
    /\ txQueue' = Tail(txQueue)
    /\ UNCHANGED <<now, db, store, options, frameworkInitialized>>

FailingStoreNext ==
    \/ \E url \in URLs : GetModel(url) /\ CacheOnly
    \/ GetStats /\ CacheOnly
    \/ Cleanup /\ CacheOnly
    \/ \E c \in DOMAIN ops : InitSuccess(c) /\ CacheOnly
    \/ \E c \in DOMAIN ops : InitError(c) /\ CacheOnly
    \/ \E c \in DOMAIN ops : IsCachedSuccess(c) /\ CacheOnly
    \/ \E c \in DOMAIN ops : IsCachedError(c) /\ CacheOnly
    \/ RemoveFromCacheSuccess /\ CacheOnly
    \/ RemoveFromCacheError /\ CacheOnly
    \/ \E c \in DOMAIN ops, h \in HeadResponses : HeadResponse(c, h) /\ CacheOnly
    \/ \E c \in DOMAIN ops, body \in Payloads \cup {"fail"} : FetchResponse(c, body) /\ CacheOnly
    \/ \E c \in DOMAIN ops, body \in Payloads \cup {"fail"} : ChunkResponse(c, body) /\ CacheOnly
    \/ \E c \in DOMAIN ops : CacheModelSuccess(c) /\ CacheOnly
    \/ \E c \in DOMAIN ops : CacheModelError(c) /\ CacheOnly
    \/ \E c \in DOMAIN ops : GetStatsSuccess(c) /\ CacheOnly
    \/ \E c \in DOMAIN ops : GetStatsError(c) /\ CacheOnly
    \/ \E c \in DOMAIN ops : CleanupSuccess(c) /\ CacheOnly
    \/ \E c \in DOMAIN ops : CleanupError(c) /\ CacheOnly
    \/ Tick /\ CacheOnly

FailingStoreSpec == InitAll /\ [][FailingStoreNext]_cacheVars

\* -------------------------- the model cache on the database of an earlier page
\* The database outlives the page: a new ModelCache may find the entry an
\* earlier page stored.  The server here has no range support.

\* the store an earlier page left: the entry of "u", written at time 0
EarlierEntries == {MapSet(EmptyMap, "u", Record("u", "p1", 0, "null", FALSE))}

\* new ModelCache() on that database
Reopen(earlier) ==
    /\ ops = <<>>
    /\ store = EmptyMap
    /\ now = 0
    /\ store' = earlier
    /\ UNCHANGED <<now, db, txQueue, ops, options, frameworkInitialized>>

ReopenedNext ==
    \/ \E earlier \in EarlierEntries : Reopen(earlier) /\ CacheOnly
    \/ \E url \in URLs : GetModel(url) /\ CacheOnly
    \/ GetStats /\ CacheOnly
    \/ Cleanup /\ CacheOnly
    \/ \E c \in DOMAIN ops : InitSuccess(c) /\ CacheOnly
    \/ \E c \in DOMAIN ops : IsCachedSuccess(c) /\ CacheOnly
    \/ RemoveFromCacheSuccess /\ CacheOnly
    \/ \E c \in DOMAIN ops, h \in {"fail", "whole"} : HeadResponse(c, h) /\ CacheOnly
    \/ \E c \in DOMAIN ops, body \in Payloads \cup {"fail"} : FetchResponse(c, body) /\ CacheOnly
    \/ \E c \in DOMAIN ops : CacheModelSuccess(c) /\ CacheOnly
    \/ \E c \in DOMAIN ops : GetStatsSuccess(c) /\ CacheOnly
    \/ \E c \in DOMAIN ops : CleanupSuccess(c) /\ CacheOnly
    \/ Tick /\ CacheOnly

ReopenedSpec == InitAll /\ [][ReopenedNext]_cacheVars

\* ------------------------------------------------ ONNXWebFramework on the cache
\* The framework (src/onnx-web-framework.js) owns one ModelCache; its methods
\* call those of the cache.  The database outlives the page: at construction
\* the store holds what an earlier page left in it.
sevenDays == 7 * 24 * 60 * 60 * 1000

\* the options argument of the constructor: enableCache absent or false,
\* cacheMaxAge absent (0) or seven days
GivenOptions == [enableCache : {"absent", "false"}, cacheMaxAge : {0, sevenDays}]

\* enableCache: options.enableCache !== false,
\* cacheMaxAge: options.cacheMaxAge || 24 * 60 * 60 * 1000
Defaulted(given) ==
    [enableCache |-> given.enableCache # "false",
     cacheMaxAge |-> IF given.cacheMaxAge = 0 THEN 24 * 60 * 60 * 1000 ELSE given.cacheMaxAge]

ModelSources == {"m.onnx"}

\* modelSource.replace(/\.onnx$/, '.ort')
OrtSource(modelSource) == IF modelSource = "m.onnx" THEN "m.ort" ELSE modelSource

\* what an earlier page left: nothing, or the model it downloaded at time 0
EarlierStores == {EmptyMap, MapSet(EmptyMap, "m.ort", Record("m.ort", "p1", 0, "null", FALSE))}

\* new ONNXWebFramework(options)
Construct(given, earlier) ==
    /\ options = NoOptions
    /\ options' = Defaulted(given)
    /\ store' = earlier
    /\ UNCHANGED <<now, db, txQueue, ops, frameworkInitialized>>

\* a call that returns without an await
Returned(kind, pc) ==
    /\ Len(ops) < MaxOps
    /\ ops' = Append(ops, Op(kind, "", pc))
    /\ UNCHANGED <<now, db, store, txQueue, options>>

\* initialize(): with the cache enabled modelCache.init() is called, then
\* cleanup() and getStats() (InitSuccess, CleanupSuccess, GetStatsSuccess)
FrameworkInitialize ==
    /\ options # NoOptions
    /\ IF options.enableCache
       THEN /\ Len(ops) < MaxOps
            /\ ops' = Append(ops, [Op("initialize", "", "opening") EXCEPT
                                      !.existing = Existing(store)])
            /\ UNCHANGED <<now, db, store, txQueue, options, frameworkInitialized>>
       ELSE /\ Returned("initialize", "done")
            /\ frameworkInitialized' = TRUE

\* loadModel(name, modelSource) with a url: modelCache.getModel(ortSource)
FrameworkLoadModel(modelSource) ==
    /\ options # NoOptions
    /\ IF ~frameworkInitialized
       THEN Returned("loadModel", "failed") /\ UNCHANGED frameworkInitialized
       ELSE Start([Op("loadModel", OrtSource(modelSource), "opening") EXCEPT
                      !.source = modelSource])

\* clearCache()
ClearCache ==
    /\ options # NoOptions
    /\ IF ~options.enableCache
       THEN Returned("clearCache", "done") /\ UNCHANGED frameworkInitialized
       ELSE StartOp("clearCache", "")

\* getCacheStats()
GetCacheStats ==
    /\ options # NoOptions
    /\ IF ~options.enableCache
       THEN Returned("getCacheStats", "done") /\ UNCHANGED frameworkInitialized
       ELSE StartOp("getCacheStats", "")

\* loadModel: ort.InferenceSession.create(modelArray, finalOptions) ends
SessionCreated(c, ok) ==
    /\ c \in DOMAIN ops
    /\ ops[c].pc = "create"
    /\ ops' = [ops EXCEPT ![c].pc = IF ok THEN "done" ELSE "failed"]
    /\ UNCHANGED <<now, db, store, txQueue, options, frameworkInitialized>>

\* the server of the models here: no range support, one version of each model
SmallHeadResponses == {"fail", "whole"}

SmallBodies == {"p1", "fail"}

FrameworkNext ==
    \/ \E given \in GivenOptions, earlier \in EarlierStores :
          Construct(given, earlier) /\ CacheOnly
    \/ FrameworkInitialize /\ CacheOnly
    \/ \E modelSource \in ModelSources : FrameworkLoadModel(modelSource) /\ CacheOnly
    \/ ClearCache /\ CacheOnly
    \/ GetCacheStats /\ CacheOnly
    \/ \E c \in DOMAIN ops : InitSuccess(c) /\ CacheOnly
    \/ \E c \in DOMAIN ops : IsCachedSuccess(c) /\ CacheOnly
    \/ RemoveFromCacheSuccess /\ CacheOnly
    \/ \E c \in DOMAIN ops, h \in SmallHeadResponses : HeadResponse(c, h) /\ CacheOnly
    \/ \E c \in DOMAIN ops, body \in SmallBodies : FetchResponse(c, body) /\ CacheOnly
    \/ \E c \in DOMAIN ops : CacheModelSuccess(c) /\ CacheOnly
    \/ \E c \in DOMAIN ops : GetStatsSuccess(c) /\ CacheOnly
    \/ \E c \in DOMAIN ops : CleanupSuccess(c) /\ CacheOnly
    \/ \E c \in DOMAIN ops, ok \in BOOLEAN : SessionCreated(c, ok) /\ CacheOnly
    \/ Tick /\ CacheOnly

FrameworkSpec == InitAll /\ [][FrameworkNext]_cacheVars

\* ------------------------------------------- getModel: one download, in bytes
\* The same getModel from the cache miss on, for one call, with the sizes the
\* code computes with.  A byte array is the sequence of the segments
\* <<first, last>> of the resource it holds, neighbouring segments joined: the
\* whole body of a resource of S bytes is << <<0, S - 1>> >>, the empty array <<>>.
MiB == 1024 * 1024

\* parseInt(contentLength) > 10 * 1024 * 1024
rangeThreshold == 10 * MiB

\* const chunkSize = 1024 * 1024
chunkSize == MiB

\* the sizes of the resource behind the url
ResourceSizes == {0, 3, 10 * MiB, 10 * MiB + 1, 25 * MiB}

ETags == {"null", "e1"}

Min(a, b) == IF a < b THEN a ELSE b

\* the bytes first..last of the resource
Bytes(first, last) == IF first > last THEN <<>> ELSE << <<first, last>> >>

\* modelArray.set(new Uint8Array(chunk), offset): b is written after a
Concat(a, b) ==
    IF a = <<>> THEN b
    ELSE IF b = <<>> THEN a
    ELSE IF a[Len(a)][2] + 1 = b[1][1]
    THEN SubSeq(a, 1, Len(a) - 1) \o << <<a[Len(a)][1], b[1][2]>> >> \o Tail(b)
    ELSE a \o b

RECURSIVE byteLength(_)
\* .byteLength of a byte array
byteLength(bytes) ==
    IF bytes = <<>> THEN 0
    ELSE (bytes[1][2] - bytes[1][1] + 1) + byteLength(Tail(bytes))

RECURSIVE ConcatAll(_)
\* the second loop of downloadInChunks: the chunks copied one after another
ConcatAll(cs) == IF cs = <<>> THEN <<>> ELSE Concat(cs[1], ConcatAll(Tail(cs)))

RECURSIVE SumByteLength(_)
\* chunks.reduce((sum, chunk) => sum + chunk.byteLength, 0)
SumByteLength(cs) == IF cs = <<>> THEN 0 ELSE byteLength(cs[1]) + SumByteLength(Tail(cs))

\* size: data.byteLength || data.length: an ArrayBuffer has no length, a
\* Uint8Array has one
SizeOf(data, isUint8Array) ==
    IF byteLength(data) # 0 THEN byteLength(data)
    ELSE IF isUint8Array THEN 0 ELSE undefined

\* modelRecord of cacheModel, without its timestamp
ModelRecord(url, data, isUint8Array, etag) ==
    [url |-> url, data |-> data, etag |-> etag, size |-> SizeOf(data, isUint8Array)]

\* a call of fetch
HeadRequest == [method |-> "HEAD", first |-> 0, last |-> 0]

GetRequest == [method |-> "GET", first |-> 0, last |-> 0]

\* the end of a range is the start of the next
RangeRequestOverlapping(start, length) ==
    [method |-> "RANGE", first |-> start, last |-> Min(start + chunkSize, length - 1)]

\* const end = Math.min(start + chunkSize - 1, contentLength - 1);
\* const range = `bytes=${start}-${end}`
RangeRequest(start, length) ==
    [method |-> "RANGE", first |-> start, last |-> Min(start + chunkSize - 1, length - 1)]

\* supportsRange && contentLength && parseInt(contentLength) > 10 * 1024 * 1024;
\* the header is a string of digits, which is truthy also when it is "0"
SizeAtThreshold(ranges, length) == ranges /\ length # NoHeader /\ length >= rangeThreshold

UseChunks(ranges, length) == ranges /\ length # NoHeader /\ length > rangeThreshold

\* what a server sends for the range request r on a resource of size bytes:
\* the range asked for, the range cut short by a byte, or - ignoring the Range
\* header - the whole body with status 200
ChunkBodies == {"exact", "short", "whole"}

ChunkBody(kind, r, size) ==
    CASE kind = "exact" -> Bytes(r.first, r.last)
      [] kind = "short" -> Bytes(r.first, r.last - 1)
      [] kind = "whole" -> Bytes(0, size - 1)

\* the chunks that are not the range asked for
Deviations == {k \in DOMAIN chunks : chunks[k] # Bytes(fetches[k + 1].first, fetches[k + 1].last)}
NoRequest == [method |-> "", first |-> 0, last |-> 0]

\* a failed step stores what was downloaded so far
RejectStoresPartial ==
    /\ thrown' = fetches[Len(fetches)]
    /\ getModelPc' = "failed"
    /\ puts' = Append(puts, ModelRecord("u", ConcatAll(chunks), TRUE, headEtag))

\* a network step throws: getModel logs the error and rethrows it (catch of
\* getModel); cacheModel is not reached
Reject ==
    /\ thrown' = fetches[Len(fetches)]
    /\ getModelPc' = "failed"
    /\ puts' = puts

\* getModel(url) after isCached found nothing: fetch(url, { method: 'HEAD' })
DownloadStart ==
    /\ getModelPc = "idle"
    /\ getModelPc' = "head"
    /\ fetches' = Append(fetches, HeadRequest)
    /\ UNCHANGED <<resource, supportsRange, contentLength, headEtag, chunkStart, chunks,
                   downloaded, modelArray, puts, thrown>>

\* the HEAD request ends.  ok = FALSE: fetch rejects.  Otherwise the three
\* headers are read (the status is not) and the download is chosen; a
\* response without the headers (an error status, say) has ranges = FALSE,
\* announced = FALSE, tag = "null".
HeadDone(ok, size, ranges, announced, tag) ==
    /\ getModelPc = "head"
    /\ IF ~ok
       THEN /\ Reject
            /\ UNCHANGED <<resource, supportsRange, contentLength, headEtag, chunkStart,
                           chunks, downloaded, fetches, modelArray>>
       ELSE LET length == IF announced THEN size ELSE NoHeader
            IN  /\ resource' = size
                /\ supportsRange' = ranges
                /\ contentLength' = length
                /\ headEtag' = tag
                /\ IF UseChunks(ranges, length)
                   THEN /\ getModelPc' = "chunk"
                        /\ fetches' = Append(fetches, RangeRequest(0, length))
                   ELSE /\ getModelPc' = "get"
                        /\ fetches' = Append(fetches, GetRequest)
                /\ UNCHANGED <<chunkStart, chunks, downloaded, modelArray, puts, thrown>>

\* const response = await fetch(url): ok = FALSE is a rejected fetch or a
\* response that is not ok
FetchDone(ok) ==
    /\ getModelPc = "get"
    /\ IF ok THEN getModelPc' = "body" /\ UNCHANGED <<puts, thrown>> ELSE Reject
    /\ UNCHANGED <<resource, supportsRange, contentLength, headEtag, chunkStart, chunks,
                   downloaded, fetches, modelArray>>

\* modelArray = await response.arrayBuffer(), then cacheModel(url, modelArray, etag)
\* up to its await of store.put
BodyRead(ok) ==
    /\ getModelPc = "body"
    /\ IF ok
       THEN /\ modelArray' = Bytes(0, resource - 1)
            /\ getModelPc' = "put"
            /\ UNCHANGED <<puts, thrown>>
       ELSE Reject /\ UNCHANGED modelArray
    /\ UNCHANGED <<resource, supportsRange, contentLength, headEtag, chunkStart, chunks,
                   downloaded, fetches>>

\* downloadInChunks: const response = await fetch(url, { headers: { Range: range } })
ChunkFetched(ok) ==
    /\ getModelPc = "chunk"
    /\ IF ok THEN getModelPc' = "chunkBody" /\ UNCHANGED <<puts, thrown>> ELSE Reject
    /\ UNCHANGED <<resource, supportsRange, contentLength, headEtag, chunkStart, chunks,
                   downloaded, fetches, modelArray>>

\* downloadInChunks: const chunk = await response.arrayBuffer(); the chunk is
\* pushed and the loop goes on: the next range request, or - after the last -
\* the chunks are copied into one Uint8Array and cacheModel is called
ChunkRead(kind) ==
    /\ getModelPc = "chunkBody"
    /\ kind \in {"short", "whole"} => Cardinality(Deviations) < MaxDeviations
    /\ IF kind = "fail"
       THEN /\ Reject
            /\ UNCHANGED <<chunkStart, chunks, downloaded, fetches, modelArray>>
       ELSE LET chunk == ChunkBody(kind, fetches[Len(fetches)], resource)
                start == chunkStart + chunkSize
            IN  /\ chunks' = Append(chunks, chunk)
                /\ downloaded' = downloaded + byteLength(chunk)
                /\ chunkStart' = start
                /\ IF start < contentLength
                   THEN /\ fetches' = Append(fetches, RangeRequest(start, contentLength))
                        /\ getModelPc' = "chunk"
                        /\ UNCHANGED modelArray
                   ELSE /\ modelArray' = ConcatAll(chunks')
                        /\ getModelPc' = "put"
                        /\ UNCHANGED fetches
                /\ UNCHANGED <<puts, thrown>>
    /\ UNCHANGED <<resource, supportsRange, contentLength, headEtag>>

\* cacheModel: store.put(modelRecord) succeeds; getModel returns modelArray
PutDone ==
    /\ getModelPc = "put"
    /\ puts' = Append(puts, ModelRecord("u", modelArray, UseChunks(supportsRange, contentLength),
                                        headEtag))
    /\ getModelPc' = "done"
    /\ UNCHANGED <<resource, supportsRange, contentLength, headEtag, chunkStart, chunks,
                   downloaded, fetches, modelArray, thrown>>

DownloadOnly == UNCHANGED <<vars, sharedVars, runtimeVars, cacheVars>>

DownloadNext ==
    \/ DownloadStart /\ DownloadOnly
    \/ \E size \in ResourceSizes, ranges \in BOOLEAN, announced \in BOOLEAN, tag \in ETags :
          HeadDone(TRUE, size, ranges, announced, tag) /\ DownloadOnly
    \/ HeadDone(FALSE, 0, FALSE, FALSE, "null") /\ DownloadOnly
    \/ \E ok \in BOOLEAN : FetchDone(ok) /\ DownloadOnly
    \/ \E ok \in BOOLEAN : BodyRead(ok) /\ DownloadOnly
    \/ \E ok \in BOOLEAN : ChunkFetched(ok) /\ DownloadOnly
    \/ \E kind \in ChunkBodies \cup {"fail"} : ChunkRead(kind) /\ DownloadOnly
    \/ PutDone /\ DownloadOnly

DownloadSpec == InitAll /\ [][DownloadNext]_downloadVars
\* ================================================================ properties
Calls == DOMAIN issued

\* the settlement that call n received in this step, if any
NewEvents(n) == IF n \in DOMAIN settled
                THEN SubSeq(settled'[n], Len(settled[n]) + 1, Len(settled'[n]))
                ELSE settled'[n]

IsPending(n) == issued[n].id \in DOMAIN pendingRequests /\ pendingRequests[issued[n].id] = n

ByResponse(ev) == ev.by \in {RESULT, ERROR}

\* the worker still holds the request of call n, or its response is in flight
Unanswered(n) == Request(issued[n].id, issued[n].type) \in inbox

ResponseInFlight(n) == \E res \in responses : res.id = issued[n].id

\* C1: whatever the set of outstanding calls and the arrival order of the
\* responses, a call that a response settles is settled by the response
\* carrying the id that call sent: resolved with that response's data, or
\* rejected with that response's error.
C1_RoutedById ==
    \A n \in Calls : \A i \in 1..Len(settled[n]) :
        ByResponse(settled[n][i]) =>
            /\ settled[n][i].of = issued[n].id
            /\ settled[n][i].how = IF settled[n][i].by = RESULT THEN "resolved" ELSE "rejected"

\* two calls outstanding at once, the response of the later one arrived first
C1_Witness ==
    \E n \in Calls, m \in Calls :
        /\ n < m
        /\ IsPending(n)
        /\ IsSettled(m) /\ Outcome(m).by = RESULT /\ Outcome(m).of = issued[m].id

\* C2: an entry of the pending map belongs to the one unsettled call that sent
\* its id and holds that call's live timer; a call is settled exactly when its
\* id has left the map, and at most once; an id that has left the map never
\* comes back and no later event touches a settled call.
C2_PendingInv ==
    /\ \A id \in DOMAIN pendingRequests :
          LET n == pendingRequests[id]
          IN  n \in Calls /\ issued[n].id = id /\ settled[n] = <<>> /\ n \in timers
    /\ timers = Range(pendingRequests)
    /\ \A n \in Calls :
          /\ Len(settled[n]) <= 1
          /\ IsSettled(n) <=> issued[n].id \notin DOMAIN pendingRequests
          /\ \A m \in Calls : issued[m].id = issued[n].id => m = n

C2_RemovedOnceStep ==
    \A n \in Calls :
        issued[n].id \notin DOMAIN pendingRequests =>
            /\ issued[n].id \notin DOMAIN pendingRequests'
            /\ settled'[n] = settled[n]

\* C2: at most one entry per id; each id leaves the pending map exactly once
\* and its call is settled exactly once, whatever events follow.
C2_SettledExactlyOnce == []C2_PendingInv /\ [][C2_RemovedOnceStep]_vars

\* a call settled by its response, then the proxy disposed: the later
\* dispose found nothing of that call to settle again
C2_Witness ==
    \E n \in Calls :
        /\ isDisposed
        /\ settled[n] = <<Ev("resolved", RESULT, issued[n].id, "", 0)>>

\* C3 (as claimed): when dispose() has completed, every call that was pending
\* when it was invoked has been rejected.
C3_AllPendingRejected ==
    \A k \in DOMAIN disposePc :
        disposePc[k] = "done" =>
            \A n \in pendingAtDispose[k] : IsSettled(n) /\ Outcome(n).how = "rejected"

\* C3 (amended): every call pending when dispose() is invoked is settled by the
\* time dispose() has cleared the map: it resolves only by its own result
\* response, delivered while dispose() waited for the dispose request; every
\* call still in the map when the wait ends is rejected with 'Worker disposed'.
C3_SettledInv ==
    \A k \in DOMAIN disposePc :
        (disposePc[k] \in {"cleared", "terminated", "done"} /\ disposeReq[k] # 0) =>
            \A n \in pendingAtDispose[k] :
                /\ Len(settled[n]) = 1
                /\ Outcome(n).how = "resolved" =>
                       Outcome(n) = Ev("resolved", RESULT, issued[n].id, "", 0)

C3_RejectAllStep ==
    \A k \in DOMAIN disposePc :
        (disposePc[k] = "waiting" /\ disposePc'[k] = "cleared") =>
            /\ pendingRequests' = EmptyMap
            /\ \A n \in Range(pendingRequests) :
                   settled'[n] = <<Ev("rejected", "disposed", 0, "", 0)>>

\* C3 (amended): every call pending when dispose() is invoked is settled when
\* dispose() has cleared the map - resolved only by its own result response,
\* otherwise rejected.
C3_PendingSettledByDispose == []C3_SettledInv /\ [][C3_RejectAllStep]_vars

\* dispose() completed and rejected a call that was pending when it was invoked
C3_Witness ==
    \E k \in DOMAIN disposePc : \E n \in pendingAtDispose[k] :
        /\ disposePc[k] = "done"
        /\ n # disposeReq[k]
        /\ settled[n] = <<Ev("rejected", "disposed", 0, "", 0)>>

\* C4: once isDisposed is set, no step allocates an id, registers an entry,
\* schedules a timer or posts a message; nothing is pending; a call only rejects.
C4_DisposedInv == isDisposed => (pendingRequests = EmptyMap /\ timers = {})

C4_DisposedStep ==
    isDisposed =>
        /\ requestId' = requestId
        /\ issued' = issued
        /\ pendingRequests' = pendingRequests
        /\ timers' = timers
        /\ inbox' = inbox
        /\ settled' = settled

\* C4: after dispose() completed a call rejects at once: no id, no entry, no
\* timer, no postMessage.
C4_NoRequestAfterDispose == []C4_DisposedInv /\ [][C4_DisposedStep]_vars

\* a call was made on the disposed proxy and rejected
C4_Witness == isDisposed /\ rejectedCalls > 0 /\ requestId < MaxRequests

\* C5: the timer callback removes the entry and rejects with an error naming
\* the request type and the timeout bound, and posts nothing to the worker;
\* a response delivered for a call that timed out changes no call and no entry.
C5_TimeoutStep ==
    \A n \in Calls :
        (NewEvents(n) # <<>> /\ NewEvents(n)[1].by = "timeout") =>
            /\ settled'[n] = <<Ev("rejected", "timeout", 0, issued[n].type, issued[n].ms)>>
            /\ issued[n].id \notin DOMAIN pendingRequests'
            /\ inbox' = inbox
            /\ issued' = issued

C5_LateResponseStep ==
    \A res \in responses \ responses' :
        (\E n \in Calls : issued[n].id = res.id /\ IsSettled(n) /\ Outcome(n).by = "timeout") =>
            /\ settled' = settled
            /\ pendingRequests' = pendingRequests
            /\ timers' = timers

\* C5: a timeout removes the entry and rejects naming type and bound; the late
\* response is dropped; nothing is posted to the worker.
C5_TimeoutThenDrop == [][C5_TimeoutStep /\ C5_LateResponseStep]_vars

\* a call timed out while another was pending, and its late response has been
\* delivered since: the other call is still pending
C5_Witness ==
    \E n \in Calls, m \in Calls :
        /\ m # n
        /\ settled[n] = <<Ev("rejected", "timeout", 0, issued[n].type, defaultTimeout)>>
        /\ ~Unanswered(n) /\ ~ResponseInFlight(n)
        /\ IsPending(m)
        /\ ~isDisposed

\* C6: every issued call eventually settles; until then its timer is
\* scheduled, with the given timeout or the default 60000 ms.
C6_TimerInv ==
    \A n \in Calls :
        /\ issued[n].ms = IF issued[n].type = DISPOSE THEN disposeTimeout ELSE defaultTimeout
        /\ IsSettled(n) \/ n \in timers

\* C6: every call issued eventually settles, given that timers fire.
C6_EveryCallSettles ==
    /\ []C6_TimerInv
    /\ \A n \in 1..(MaxRequests + 1) : [](n \in Calls => <>IsSettled(n))

\* a call whose response never arrived was rejected by its 60000 ms timer
C6_Witness ==
    \E n \in Calls :
        /\ Unanswered(n)
        /\ settled[n] = <<Ev("rejected", "timeout", 0, issued[n].type, defaultTimeout)>>

\* C7: the ids sent are strictly increasing in call order, whatever became
\* of the earlier requests.
C7_IdsIncrease ==
    /\ \A n \in Calls, m \in Calls : n < m => issued[n].id < issued[m].id
    /\ \A n \in Calls : issued[n].id <= requestId

\* a request was issued after one whose send failed
C7_Witness ==
    \E n \in Calls, m \in Calls :
        n < m /\ IsSettled(n) /\ Outcome(n).by = "send"

\* C8: a call whose postMessage throws is rejected in the same step with the
\* send error; the pending map, the timers and the worker's inbox are as
\* before the call.
C8_SendFailedStep ==
    LET n == Len(issued) + 1
    IN  (Len(issued') = n /\ settled'[n] # <<>>) =>
            /\ settled'[n] = <<Ev("rejected", "send", 0, "", 0)>>
            /\ pendingRequests' = pendingRequests
            /\ timers' = timers
            /\ inbox' = inbox

\* C8: a synchronous postMessage failure rejects the call at once and leaves
\* the pending map and the timers as they were before the call.
C8_SendFailureCleansUp ==
    /\ [](\A n \in Calls : (IsSettled(n) /\ Outcome(n).by = "send") => ~IsPending(n) /\ n \notin timers)
    /\ [][C8_SendFailedStep]_vars

\* a send failed while another call was pending, which still is
C8_Witness ==
    \E n \in Calls, m \in Calls :
        /\ m < n
        /\ IsSettled(n) /\ Outcome(n).by = "send"
        /\ IsPending(m) /\ m \in timers

\* C9: a worker error rejects exactly the calls pending at that moment with a
\* worker-error failure, cancels their timers and empties the map; it changes
\* neither the id counter nor isDisposed, so later calls proceed as usual.
C9_WorkerErrorStep ==
    (\E n \in Calls : NewEvents(n) # <<>> /\ NewEvents(n)[1].by = "worker") =>
        /\ pendingRequests' = EmptyMap
        /\ timers' = {}
        /\ \A n \in Calls :
              settled'[n] = IF IsPending(n) THEN <<Ev("rejected", "worker", 0, "", 0)>>
                            ELSE settled[n]
        /\ requestId' = requestId
        /\ isDisposed' = isDisposed
        /\ terminateCalls' = terminateCalls

\* C9: a worker error rejects every pending call, cancels the timers, empties
\* the map and leaves the proxy usable.
C9_WorkerErrorRejectsAll == [][C9_WorkerErrorStep]_vars

\* a worker error rejected a call, and a call issued after it is pending
C9_Witness ==
    \E n \in Calls, m \in Calls :
        /\ n < m
        /\ settled[n] = <<Ev("rejected", "worker", 0, "", 0)>>
        /\ IsPending(m) /\ m \in timers

\* C10: dispose() sends a dispose request bounded by 5000 ms and waits for
\* its outcome; only then it empties the map; only then it terminates the
\* worker; then it marks the proxy disposed and returns - whatever the
\* outcome of the dispose request was.
C10_DisposeInv ==
    \A k \in DOMAIN disposePc :
        LET d == disposeReq[k]
        IN  /\ d # 0 => issued[d].type = DISPOSE /\ issued[d].ms = disposeTimeout
            /\ disposePc[k] = "waiting" => IsSettled(d) \/ (IsPending(d) /\ d \in timers)
            /\ disposePc[k] \in {"cleared", "terminated"} =>
                   IsSettled(d) /\ pendingRequests = EmptyMap
            /\ disposePc[k] \in {"terminated", "done"} => terminateCalls >= 1
            /\ disposePc[k] = "done" => isDisposed
    /\ terminateCalls >= 1 => pendingRequests = EmptyMap

C10_DisposeStep ==
    /\ \A k \in DOMAIN disposePc :
        /\ (disposePc[k] = "waiting" /\ disposePc'[k] # "waiting") =>
               IsSettled(disposeReq[k]) /\ disposePc'[k] = "cleared"
        /\ (disposePc[k] = "cleared" /\ disposePc'[k] # "cleared") =>
               disposePc'[k] = "terminated" /\ terminateCalls' = terminateCalls + 1
        /\ (disposePc[k] = "terminated" /\ disposePc'[k] # "terminated") =>
               disposePc'[k] = "done" /\ isDisposed'
    /\ terminateCalls' # terminateCalls =>
           \E k \in DOMAIN disposePc : disposePc[k] = "cleared" /\ pendingRequests = EmptyMap
    /\ isDisposed' # isDisposed =>
           \E k \in DOMAIN disposePc : disposePc[k] = "terminated"

\* C10: dispose() sends the 5000 ms dispose request and waits, then rejects and
\* clears, then terminates, and completes whatever the request's outcome.
C10_DisposeOrder == []C10_DisposeInv /\ [][C10_DisposeStep]_vars

\* dispose() completed although its dispose request could not be sent
C10_Witness ==
    \E k \in DOMAIN disposePc :
        /\ disposePc[k] = "done"
        /\ disposeReq[k] # 0
        /\ Outcome(disposeReq[k]).by = "send"
        /\ terminateCalls >= 1

\* C11: with two proxies bound to one worker, a call that a response settles
\* is settled by a response to a request of its own proxy, never by a response
\* to a request of the other proxy.
C11_ResponsePrivate ==
    \A st \in sSettled : ByResponse(st) => st.from = st.proxy

\* ------------------------------------------- properties of the worker runtime
\* this step dispatches a message; the message
Dispatched == Len(received') = Len(received) + 1

NewMessage == received'[Len(received')]

\* the handler of message n ends in this step
Ends(n) ==
    /\ n \in DOMAIN handler'
    /\ handler'[n].pc = "done"
    /\ n \in DOMAIN handler => InProgress(n)

\* this step posts exactly one response; the response
PostedOne == Len(posted') = Len(posted) + 1 /\ SubSeq(posted', 1, Len(posted)) = posted

LastPosted == posted'[Len(posted')]

\* Ready / Uninitialized, the configuration and the loaded sessions
RuntimeState == <<isInitialized, config, models>>

ResponsesTo(n) == {i \in DOMAIN posted : posted[i].id = received[n].id}

\* C12: the worker handles messages one at a time: when a message is
\* dispatched the handlers of all earlier messages have ended, so at most one
\* handler is in progress, and the responses are posted in the arrival order
\* of their requests.
C12_OneAtATime ==
    /\ \A n \in DOMAIN handler : n < Len(handler) => ~InProgress(n)
    /\ Cardinality({n \in DOMAIN handler : InProgress(n)}) <= 1
    /\ \A i, j \in DOMAIN posted : i < j => posted[i].id < posted[j].id

C13_ResponseInv ==
    /\ DOMAIN handler = DOMAIN received
    /\ \A n \in DOMAIN received :
          Cardinality(ResponsesTo(n)) = IF InProgress(n) THEN 0 ELSE 1
    /\ \A i \in DOMAIN posted :
          /\ \E n \in DOMAIN received : posted[i].id = received[n].id
          /\ posted[i].type \in {RESULT, ERROR}
          /\ posted[i].type = RESULT => posted[i].data # NoData /\ posted[i].error = NoData
          /\ posted[i].type = ERROR => posted[i].error.msg # "" /\ posted[i].data = NoData

C13_ResponseStep ==
    /\ (\A n \in DOMAIN handler' : ~Ends(n)) => posted' = posted
    /\ \A n \in DOMAIN handler' : Ends(n) =>
          /\ PostedOne
          /\ LastPosted.id = received'[n].id
          /\ received'[n].type = UNKNOWN => LastPosted.type = ERROR
          /\ \A ok \in BOOLEAN :
                CreateDone(n, ok) \/ RunDone(n, ok) \/ (ReleaseDone(n, ok) /\ ~ok)
                    => (LastPosted.type = RESULT <=> ok)

\* C13: every message the worker receives, of any type and whether or not its
\* handler throws, gets exactly one response: none while its handler is in
\* progress, one once it has ended, posted by the step that ends it; the
\* response carries the id of the request, has type 'result' with data when
\* the handler succeeded and type 'error' with an error string when it threw
\* (an unknown type always throws).
C13_OneResponsePerMessage == []C13_ResponseInv /\ [][C13_ResponseStep]_runtimeVars

\* an unknown type, a failed session creation and a successful handler have
\* all been answered
C13_Witness ==
    /\ \A n \in DOMAIN handler : ~InProgress(n)
    /\ \E i, j, k \in DOMAIN posted :
          /\ posted[i].error.msg = "Unknown message type"
          /\ posted[j].error.msg = "create failed"
          /\ posted[k].type = RESULT /\ posted[k].data.msg = "ModelInfo"

\* message n was answered 'Worker not initialized'
RejectedNotInitialized(n) ==
    \E i \in ResponsesTo(n) : posted[i].type = ERROR /\ posted[i].error = NotInitializedError

\* no handler other than that of the new message moves in this step
OthersUntouched == \A k \in DOMAIN handler : handler'[k] = handler[k]

C14_NotInitializedStep ==
    (Dispatched /\ NewMessage.type \in {LOAD_MODEL, RUN_INFERENCE} /\ ~isInitialized) =>
        /\ Ends(Len(received'))
        /\ PostedOne
        /\ LastPosted.id = NewMessage.id
        /\ LastPosted.type = ERROR
        /\ LastPosted.error = NotInitializedError
        /\ handler'[Len(received')].session = 0
        /\ OthersUntouched
        /\ isInitialized' = FALSE
        /\ models' = models
        /\ released' = released
        /\ config' = config

C14_NotInitializedInv ==
    \A n \in DOMAIN received : RejectedNotInitialized(n) =>
        /\ n \notin Range(models)
        /\ \A k \in DOMAIN received : k > n /\ ~InProgress(k) => ResponsesTo(k) # {}

\* C14: a load_model or run_inference message dispatched while the runtime is
\* Uninitialized (never initialized, or disposed) is answered at once with the
\* error 'Worker not initialized', starts no session creation and no session
\* run, and leaves the runtime as it was, Uninitialized; its load never puts a
\* session in the map, and the messages received after it are still answered.
C14_FailsWhenUninitialized == []C14_NotInitializedInv /\ [][C14_NotInitializedStep]_runtimeVars

\* a load rejected before any initialize, a later message answered with a
\* result, and a request rejected after initialize and dispose
C14_Witness ==
    \E n1, k, d, n2 \in DOMAIN received :
        /\ n1 < k /\ k < d /\ d < n2
        /\ RejectedNotInitialized(n1) /\ received[n1].type = LOAD_MODEL
        /\ received[k].type = INITIALIZE
        /\ \E i \in ResponsesTo(k) : posted[i].type = RESULT
        /\ received[d].type = DISPOSE
        /\ RejectedNotInitialized(n2)

\* the new message is an initialize with the same configuration as the last
\* message received, and no handler has run since that one was handled: none
\* is in progress and its response is the last one posted
SameInitializeAgain ==
    /\ Len(received) >= 1
    /\ received[Len(received)].type = INITIALIZE
    /\ received[Len(received)].config = NewMessage.config
    /\ \A k \in DOMAIN handler : ~InProgress(k)
    /\ posted[Len(posted)].id = received[Len(received)].id

C15_InitializeStep ==
    (Dispatched /\ NewMessage.type = INITIALIZE) =>
        /\ isInitialized' = TRUE
        /\ config' = ConfigOf(NewMessage)
        /\ models' = models
        /\ released' = released
        /\ OthersUntouched
        /\ Ends(Len(received'))
        /\ PostedOne
        /\ LastPosted.type = RESULT
        /\ SameInitializeAgain => RuntimeState' = RuntimeState

\* C15: handling an initialize message in any state leaves the runtime Ready
\* with the configuration of the message stored; the loaded sessions are
\* untouched (none is released, none removed), and an initialize handled right
\* after the same initialize leaves the whole runtime state as it was.
C15_InitializeIdempotent == [][C15_InitializeStep]_runtimeVars

\* initialize, a load, then the same initialize with another configuration twice
C15_Witness ==
    /\ Len(received) = 4
    /\ received[1].type = INITIALIZE
    /\ received[3].type = INITIALIZE /\ received[3].config # received[1].config
    /\ received[4].type = INITIALIZE /\ received[4].config = received[3].config
    /\ DOMAIN models # {}
    /\ isInitialized /\ config = ConfigOf(received[4])

C16_NotLoadedStep ==
    (Dispatched /\ NewMessage.type = RUN_INFERENCE /\ isInitialized
                /\ NewMessage.modelName \notin DOMAIN models) =>
        /\ Ends(Len(received'))
        /\ PostedOne
        /\ LastPosted.id = NewMessage.id
        /\ LastPosted.type = ERROR
        /\ LastPosted.error = NotLoadedError(NewMessage.modelName)
        /\ handler'[Len(received')].session = 0
        /\ OthersUntouched
        /\ RuntimeState' = RuntimeState
        /\ released' = released

C16_LoadedStep ==
    /\ (Dispatched /\ NewMessage.type = RUN_INFERENCE /\ isInitialized
                   /\ NewMessage.modelName \in DOMAIN models) =>
          \/ /\ handler'[Len(received')].pc = "running"
             /\ handler'[Len(received')].session = models[NewMessage.modelName]
             /\ posted' = posted
          \/ /\ Ends(Len(received'))
             /\ LastPosted.error = Data("inference failed", NewMessage.modelName)
    /\ \A n \in DOMAIN handler : RunDone(n, TRUE) =>
          /\ LastPosted.type = RESULT
          /\ LastPosted.id = received[n].id
          /\ LastPosted.data = Data("output", received[n].modelName)

\* initialize, load_model(x), run_inference(x), each sent after the response
\* to the one before: the run uses the session the load created and its
\* response is a result unless the inference itself throws
C16_SequenceInv ==
    (/\ Len(posted) >= 3
     /\ received[1].type = INITIALIZE
     /\ received[2].type = LOAD_MODEL
     /\ received[3].type = RUN_INFERENCE /\ received[3].modelName = received[2].modelName
     /\ \A i \in 1..3 : posted[i].id = received[i].id
     /\ posted[2].type = RESULT) =>
        /\ handler[3].session \in {0, 2}
        /\ \/ posted[3].type = RESULT /\ handler[3].session = 2
           \/ posted[3].error = Data("inference failed", received[3].modelName)

\* C16: in Ready state a run_inference for a name with no loaded session is
\* answered at once with the error naming that model as not loaded, passes no
\* session to session.run and leaves the runtime state unchanged; for a name
\* with a loaded session the handler runs that session, and after initialize,
\* load_model(x), run_inference(x) the response is the result of the run.
C16_RunNeedsLoadedSession ==
    []C16_SequenceInv /\ [][C16_NotLoadedStep /\ C16_LoadedStep]_runtimeVars

\* initialize, load m, run m answered with its output, run n answered not loaded
C16_Witness ==
    /\ Len(posted) = 4
    /\ \A i \in 1..4 : posted[i].id = received[i].id
    /\ received[1].type = INITIALIZE
    /\ received[2].type = LOAD_MODEL /\ received[2].modelName = "m"
    /\ received[3].type = RUN_INFERENCE /\ received[3].modelName = "m"
    /\ posted[3].type = RESULT /\ posted[3].data = Data("output", "m")
    /\ received[4].type = RUN_INFERENCE
    /\ posted[4].error = NotLoadedError("n")

C17_DisposeStep ==
    \A n \in DOMAIN handler' : (received'[n].type = DISPOSE /\ Ends(n)) =>
        /\ isInitialized' = FALSE
        /\ models' = EmptyMap
        /\ Range(models) \subseteq released'

\* C17: when the handler of a dispose message ends, every session the session
\* map held has been released, the map is empty and the runtime is
\* Uninitialized (so that a following load_model or run_inference is rejected
\* as not initialized).
C17_DisposeReleasesAll == [][C17_DisposeStep]_runtimeVars

\* ---------------------------------------------- properties of the model cache
\* the freshness check of isCached runs for call c in this step
Lookup(c) == c \in DOMAIN ops /\ ops[c].pc = "lookup" /\ ops'[c].pc # "lookup"

\* getStats call c gets its result in this step
StatsRead(c) == c \in DOMAIN ops /\ ops[c].pc = "stats" /\ ops'[c].pc = "done"

\* now - storedAt of the entry of url
Age(url) == now - store[url].timestamp

FreshUrls == {u \in DOMAIN store : Age(u) <= maxAge}

C18_HitStep ==
    \A c \in DOMAIN ops :
        (Lookup(c) /\ ops[c].url \in DOMAIN store /\ Age(ops[c].url) <= maxAge) =>
            /\ ops'[c].pc = "done"
            /\ ops'[c].from = "cache"
            /\ ops'[c].data = store[ops[c].url].data
            /\ ops'[c].net = <<>>
            /\ store' = store
            /\ txQueue' = Tail(txQueue)

C18_HitInv ==
    \A c \in DOMAIN ops : ops[c].from = "cache" =>
        /\ ops[c].pc = "done"
        /\ ops[c].net = <<>>
        /\ \E b \in DOMAIN ops \ {c} :
              /\ ops[b].kind = "getModel" /\ ops[b].url = ops[c].url
              /\ ops[b].from = "network"
              /\ ops[b].data = ops[c].data

\* C18: a getModel(url) whose lookup finds an entry of age at most maxAge
\* returns the data of that entry at once; it issues no network request, then
\* or later, leaves the store alone, and the bytes it returns are those a
\* successful getModel(url) downloaded and stored before.
C18_FreshHitNoNetwork == []C18_HitInv /\ [][C18_HitStep]_cacheVars

\* the second call is answered from the store, maxAge after the first wrote
C18_Witness ==
    /\ Len(ops) = 2
    /\ ops[1].from = "network"
    /\ ops[2].from = "cache" /\ ops[2].data = ops[1].data
    /\ "u" \in DOMAIN store /\ Age("u") = maxAge

C19_StaleStep ==
    \A c \in DOMAIN ops :
        (Lookup(c) /\ ops[c].url \in DOMAIN store /\ Age(ops[c].url) > maxAge) =>
            /\ ops'[c].found = "expired"
            /\ ops'[c].pc = "head"
            /\ ops'[c].net = <<"HEAD">>
            /\ ops'[c].from = ""
            /\ txQueue' = Append(Tail(txQueue), Tx("delete", c, ops[c].url, NoRecord))
            /\ store' = store

C19_StaleInv ==
    \A c \in DOMAIN ops : ops[c].found = "expired" =>
        /\ ops[c].from # "cache"
        /\ Len(ops[c].net) >= 1 /\ ops[c].net[1] = "HEAD"
        /\ ops[c].pc = "done" =>
              /\ ops[c].from = "network"
              /\ \E i \in DOMAIN ops[c].net : ops[c].net[i] \in {"GET", "RANGE"}

\* C19: a getModel(url) whose lookup finds an entry older than maxAge does not
\* return it: in the step of the lookup it starts the removal of the entry
\* (the delete is queued, the entry is still in the store) and goes on to the
\* network, issuing the HEAD request; what it returns in the end was
\* downloaded by a GET or by range requests of its own.
C19_StaleEntryRefetched == []C19_StaleInv /\ [][C19_StaleStep]_cacheVars

\* the call has its HEAD response and waits for the GET while the removal it
\* started is still queued and the stale entry still stored
C19_Witness ==
    \E c \in DOMAIN ops :
        /\ ops[c].found = "expired"
        /\ ops[c].pc = "get"
        /\ \E i \in DOMAIN txQueue : txQueue[i] = Tx("delete", c, ops[c].url, NoRecord)
        /\ ops[c].url \in DOMAIN store /\ Age(ops[c].url) > maxAge

C20_ReadersStep ==
    \A c \in DOMAIN ops :
        /\ (Lookup(c) /\ ops[c].url \in DOMAIN store /\ Age(ops[c].url) > maxAge) =>
              ops'[c].from # "cache"
        /\ StatsRead(c) =>
              /\ ops'[c].stats.count = Cardinality(FreshUrls)
              /\ ops'[c].stats.totalSize = TotalSize(store, FreshUrls)
              /\ {m.url : m \in ops'[c].stats.models} = FreshUrls

\* C20: every read treats an entry older than maxAge as absent while it is
\* still in the store: the lookup of getModel/isCached does not return it, and
\* getStats leaves it out of count, totalSize and the per-entry list.
C20_ExpiredAbsentForReaders == [][C20_ReadersStep]_cacheVars

\* ------------------------------------------ properties of one download (bytes)
\* the HEAD response has been read
HeadRead == getModelPc \notin {"idle", "head"} /\ fetches[Len(fetches)].method # "HEAD"

\* the k-th request after the HEAD request
FetchOf(k) == fetches[k + 1]

NumRequests == Len(fetches) - 1

\* ceil(S / C)
CeilDiv(S, C) == (S + C - 1) \div C

\* Accept-Ranges: bytes and a Content-Length above 10 MiB
Advertised == supportsRange /\ contentLength # NoHeader /\ contentLength > 10 * 1024 * 1024

\* C21: a getModel whose HEAD request, whole-resource GET or range request
\* (or the reading of its body) fails is rejected with the failure of that
\* request, the last it issued, and nothing is passed to store.put, then or
\* later: a record is written only by a call that read every body, and holds
\* all of them.
C21_Inv ==
    /\ getModelPc = "failed" =>
          /\ puts = <<>>
          /\ thrown = fetches[Len(fetches)]
          /\ thrown.method \in {"HEAD", "GET", "RANGE"}
    /\ getModelPc # "failed" => thrown = NoRequest
    /\ puts # <<>> =>
          /\ getModelPc = "done" /\ Len(puts) = 1
          /\ puts[1].data = modelArray
          /\ Advertised =>
                /\ Len(chunks) = NumRequests
                /\ modelArray = ConcatAll(chunks)

C21_Step == getModelPc = "failed" => UNCHANGED downloadVars

C21_FailureWritesNothing == []C21_Inv /\ [][C21_Step]_downloadVars

\* a range request failed after bodies of earlier ones were read
C21_Witness ==
    /\ getModelPc = "failed"
    /\ thrown.method = "RANGE" /\ thrown.first > 0
    /\ Len(chunks) >= 1
    /\ puts = <<>>

\* C22: a ranged download whose bodies do not add up to the Content-Length of
\* the HEAD response is a failure: once the last body is read, getModel is
\* rejected and nothing is written.
C22_SizeMismatchFails ==
    (Advertised /\ chunkStart >= contentLength /\ SumByteLength(chunks) # contentLength) =>
        getModelPc = "failed" /\ puts = <<>>

\* C23: a HEAD request that fails does not reject getModel, and after a HEAD
\* response without the headers the resource is fetched by one whole-resource GET.
C23_HeadFailureFallsThrough ==
    /\ ~(getModelPc = "failed" /\ thrown.method = "HEAD")
    /\ (HeadRead /\ ~supportsRange /\ contentLength = NoHeader) => FetchOf(1) = GetRequest

\* C24: on the ranged path request k (from 0) asks for the bytes k*C ..
\* min(k*C + C - 1, S - 1): the ranges start at 0, each begins where the one
\* before ended, and none is issued before the body of the one before was
\* read.  A download that reaches the store has issued ceil(S / C) of them, the
\* last ending at S - 1; its result is the bodies in request order - the whole
\* resource when every body is the range asked for - and it is written once.
C24_Inv ==
    (Advertised /\ HeadRead) =>
        LET S == contentLength
            C == 1024 * 1024
            N == CeilDiv(S, C)
        IN  /\ fetches[1] = HeadRequest
            /\ \A k \in 1..NumRequests :
                  /\ FetchOf(k).method = "RANGE"
                  /\ FetchOf(k).first = (k - 1) * C
                  /\ FetchOf(k).last = Min((k - 1) * C + C - 1, S - 1)
                  /\ FetchOf(k).first <= FetchOf(k).last
                  /\ k > 1 => FetchOf(k).first = FetchOf(k - 1).last + 1
            /\ NumRequests <= N
            /\ getModelPc \in {"chunk", "chunkBody"} => NumRequests = Len(chunks) + 1
            /\ getModelPc \in {"put", "done"} =>
                  /\ NumRequests = N /\ Len(chunks) = N
                  /\ FetchOf(N).last = S - 1
                  /\ modelArray = ConcatAll(chunks)
                  /\ byteLength(modelArray) = downloaded
                  /\ Deviations = {} => modelArray = Bytes(0, S - 1)
            /\ getModelPc = "done" <=> Len(puts) = 1
            /\ getModelPc # "done" => puts = <<>>
            /\ getModelPc = "done" => puts[1].data = modelArray

\* a request is issued only in the step that reads the HEAD response or the
\* body of the request before
C24_Step ==
    (Advertised /\ fetches' # fetches) =>
        /\ getModelPc = "chunkBody"
        /\ Len(chunks') = Len(chunks) + 1
        /\ Len(fetches') = Len(fetches) + 1

C24_RangedPlan == []C24_Inv /\ [][C24_Step]_downloadVars

\* 25 MiB in 1 MiB chunks: 25 range requests, then one write
C24_Witness ==
    /\ Advertised /\ contentLength = 25 * 1024 * 1024
    /\ getModelPc = "done"
    /\ NumRequests = 25
    /\ Len(puts) = 1 /\ puts[1].data = Bytes(0, 25 * 1024 * 1024 - 1)

\* C25: once the HEAD response is read, the download is by range requests if and
\* only if it carried Accept-Ranges: bytes and a Content-Length above 10 MiB;
\* otherwise the one request that follows is a whole-resource GET.
C25_RangesIffLarge ==
    HeadRead =>
        /\ Advertised <=> FetchOf(1).method = "RANGE"
        /\ ~Advertised => NumRequests = 1 /\ FetchOf(1) = GetRequest /\ chunks = <<>>
        /\ Advertised => \A k \in 1..NumRequests : FetchOf(k).method = "RANGE"

\* a range-capable server and exactly 10 MiB: one GET
C25_Witness ==
    /\ supportsRange /\ contentLength = 10 * 1024 * 1024
    /\ getModelPc = "done"
    /\ fetches = <<HeadRequest, GetRequest>>
    /\ puts[1].data = Bytes(0, 10 * 1024 * 1024 - 1)

\* ------------------------------------- properties of the model cache (writes)
\* cacheModel is called by call c in this step
CacheModelCalled(c) == c \in DOMAIN ops /\ ops[c].pc \in {"get", "chunk"} /\ ops'[c].pc = "put"

\* the store.put of call c runs in this step
PutRuns(c) == c \in DOMAIN ops /\ ops[c].pc = "put" /\ ops'[c].pc # "put"

\* the cursor of the cleanup of call c runs in this step
CleanupRuns(c) == c \in DOMAIN ops /\ ops[c].pc = "cleanup" /\ ops'[c].pc # "cleanup"

C26_Step ==
    \A c \in DOMAIN ops :
        /\ CacheModelCalled(c) =>
              LET tx == txQueue'[Len(txQueue')]
              IN  /\ Len(txQueue') = Len(txQueue) + 1
                  /\ tx.kind = "put" /\ tx.op = c /\ tx.url = ops[c].url
                  /\ tx.record = [url |-> ops[c].url, data |-> ops'[c].data,
                                  timestamp |-> now, etag |-> ops[c].etag,
                                  size |-> ByteLength(ops'[c].data)]
        /\ PutRuns(c) =>
              /\ store' = MapSet(store, ops[c].url, Head(txQueue).record)
              /\ ops'[c].from = "network"
              /\ ops'[c].data = store'[ops[c].url].data
        /\ \A u \in DOMAIN store \cap DOMAIN store' :
              store'[u] # store[u] => \E b \in DOMAIN ops : PutRuns(b) /\ ops[b].url = u

C26_Inv ==
    \A u \in DOMAIN store :
        /\ store[u].url = u
        /\ store[u].data \in Payloads
        /\ store[u].size = ByteLength(store[u].data)

\* C26: a getModel(url) that downloaded its bytes passes to store.put the record
\* (url, the bytes it returns, the time of the call of cacheModel, the ETag of
\* its HEAD response, the length of the bytes); when the put runs, the record
\* becomes the entry of url, whole, in place of any entry url had; an entry
\* changes in no other way, and every entry is keyed by its own url.
C26_UpsertWholeEntry == []C26_Inv /\ [][C26_Step]_cacheVars

\* C27 as stated, now being the time at which cleanup completes: of the
\* records that were in the store when cleanup was called, those with
\* timestamp <= now - maxAge are gone and the others are unchanged.
C27_AtCompletionStep ==
    \A c \in DOMAIN ops : CleanupRuns(c) =>
        \A u \in DOMAIN store : <<u, store[u].timestamp>> \in ops[c].existing =>
            /\ store[u].timestamp <= now - maxAge => u \notin DOMAIN store'
            /\ store[u].timestamp > now - maxAge => u \in DOMAIN store' /\ store'[u] = store[u]

C27_CleanupAtCompletion == [][C27_AtCompletionStep]_cacheVars

C27_Step ==
    \A c \in DOMAIN ops :
        /\ (ops[c].pc # "cleanup" /\ ops'[c].pc = "cleanup") =>
              ops'[c].cutoff = now - 24 * 60 * 60 * 1000
        /\ ops[c].pc = "cleanup" => ops'[c].cutoff = ops[c].cutoff
        /\ CleanupRuns(c) =>
              /\ \A u \in DOMAIN store :
                    /\ store[u].timestamp <= ops[c].cutoff => u \notin DOMAIN store'
                    /\ store[u].timestamp > ops[c].cutoff =>
                          u \in DOMAIN store' /\ store'[u] = store[u]
              /\ DOMAIN store' \subseteq DOMAIN store

\* C27 (amended): cleanup reads the clock once, when it creates its
\* transaction: cutoffTime = T - maxAge.  When the transaction has run, no
\* entry with timestamp <= T - maxAge remains and every entry with timestamp
\* > T - maxAge is unchanged, however much later than T that is.
C27_CleanupAtCutoff == [][C27_Step]_cacheVars

\* a cleanup called when the entry was exactly maxAge old has removed it
C27_Witness ==
    /\ Len(ops) = 2
    /\ ops[1].kind = "getModel" /\ ops[1].from = "network"
    /\ ops[2].kind = "cleanup" /\ ops[2].pc = "done"
    /\ ops[2].existing = {<<"u", 0>>} /\ ops[2].cutoff = 0
    /\ store = EmptyMap

\* ---------------------------------------------- properties of the framework
\* a framework has been constructed and stays as it is in this step
Constructed == options # NoOptions /\ options' = options

C28_ClearStep ==
    \A c \in DOMAIN ops :
        (ops[c].kind = "clearCache" /\ ops[c].pc # "done" /\ ops'[c].pc = "done") =>
            /\ store' = EmptyMap
            /\ Stats(store', now').count = 0

C28_ReturnedInv ==
    \A c \in DOMAIN ops :
        (ops[c].kind = "clearCache" /\ ops[c].pc = "done" /\ Len(ops) = c /\ options.enableCache) =>
            store = EmptyMap

\* C28: when clearCache() completes the store holds no entry - a getCacheStats()
\* would count 0 - and it stays so until the next call on the framework.
C28_ClearCacheClearsAll == []C28_ReturnedInv /\ [][C28_ClearStep]_cacheVars

C29_Step ==
    \A c \in DOMAIN ops :
        /\ (Lookup(c) /\ ops[c].kind = "loadModel" /\ ops[c].url \in DOMAIN store
              /\ Age(ops[c].url) <= options.cacheMaxAge) =>
                 ops'[c].from = "cache" /\ ops'[c].net = ops[c].net
        /\ (CleanupRuns(c) /\ ops[c].kind \in {"clearCache", "initialize"}) =>
              \A u \in DOMAIN store :
                  (ops[c].cutoff + maxAge) - store[u].timestamp < options.cacheMaxAge =>
                      u \in DOMAIN store' /\ store'[u] = store[u]

\* C29: an entry is expired when it is older than options.cacheMaxAge: the
\* lookup of loadModel returns an entry of at most that age without a network
\* request, and the cleanup of clearCache() and of initialize() keeps every
\* entry that is younger than that when cleanup reads the clock.
C29_ExpiryIsCacheMaxAge == [][Constructed => C29_Step]_cacheVars

C30_Inv ==
    (options # NoOptions /\ ~options.enableCache) =>
        \A c \in DOMAIN ops :
            /\ ops[c].from # "cache"
            /\ (ops[c].kind = "loadModel" /\ ops[c].pc \in {"create", "done"}) =>
                  ops[c].from = "network"

\* C30: with enableCache false no call on the framework opens the database,
\* creates a transaction on the store or changes an entry, and a loadModel
\* that gets its bytes gets them from the network.
C30_DisabledCacheUntouched ==
    /\ []C30_Inv
    /\ [][(Constructed /\ ~options.enableCache) => UNCHANGED <<db, store, txQueue>>]_cacheVars

\* ------------------------------ properties of the worker runtime (interleaving)
\* C36: in every reachable state of the worker runtime, the states reached
\* when handlers of different messages interleave at their awaits included
\* (a dispose handled while a load_model awaits its session creation),
\* Uninitialized implies that the session map is empty.
C36_UninitializedHasNoSessions == ~isInitialized => models = EmptyMap

C38_ReleaseThrowsStep ==
    \A n \in DOMAIN handler : ReleaseDone(n, FALSE) =>
        /\ PostedOne
        /\ LastPosted.id = received[n].id
        /\ LastPosted.type = ERROR
        /\ isInitialized' = FALSE
        /\ models' = EmptyMap
        /\ Range(models) \subseteq released'

\* C38: if the release of one of the held sessions throws while the worker
\* handles dispose, the request is answered with an error response and the
\* runtime still ends Uninitialized with an empty session map, every other
\* held session having been released.
C38_DisposeSurvivesReleaseFailure == [][C38_ReleaseThrowsStep]_runtimeVars

\* the steps of a load_model handler whose session creation fails: the
\* dispatch in Ready state, and the end of InferenceSession.create
C40_FailedLoadStep ==
    /\ (Dispatched /\ NewMessage.type = LOAD_MODEL /\ isInitialized) =>
          /\ handler'[Len(received')].pc = "creating"
          /\ RuntimeState' = RuntimeState
          /\ released' = released
          /\ posted' = posted
          /\ OthersUntouched
    /\ \A n \in DOMAIN handler : CreateDone(n, FALSE) =>
          /\ received[n].type = LOAD_MODEL
          /\ PostedOne
          /\ LastPosted.id = received[n].id
          /\ LastPosted.type = ERROR
          /\ isInitialized' = isInitialized
          /\ config' = config
          /\ DOMAIN models' = DOMAIN models
          /\ \A x \in DOMAIN models : models'[x] = models[x]
          /\ released' = released
          /\ \A k \in DOMAIN handler : k # n => handler'[k] = handler[k]

\* initialize, load_model(x) answered with a result, load_model(x) again
\* answered with an error, each answered in turn: the runtime is Ready, x still
\* names the session of the first load, and a run_inference(x) uses it
C40_SequenceInv ==
    (/\ Len(posted) >= 3
     /\ received[1].type = INITIALIZE
     /\ received[2].type = LOAD_MODEL
     /\ received[3].type = LOAD_MODEL /\ received[3].modelName = received[2].modelName
     /\ \A i \in 1..3 : posted[i].id = received[i].id
     /\ posted[2].type = RESULT
     /\ posted[3].type = ERROR) =>
        /\ Len(received) = 3 =>
              isInitialized /\ models = MapSet(EmptyMap, received[2].modelName, 2)
        /\ (/\ Len(posted) = 4
            /\ received[4].type = RUN_INFERENCE
            /\ received[4].modelName = received[2].modelName
            /\ posted[4].type = RESULT) => handler[4].session = 2

\* C40: a load_model request whose session creation fails is answered with an
\* error response and leaves the worker runtime unchanged: it stays Ready, the
\* session map has the same names and sessions as before, and a session
\* previously loaded under the same name is still used by run_inference.
C40_FailedLoadChangesNothing == []C40_SequenceInv /\ [][C40_FailedLoadStep]_runtimeVars

\* load m, a second load of m that failed, then a run of m answered with the
\* output of the first session
C40_Witness ==
    /\ Len(posted) = 4
    /\ \A i \in 1..4 : posted[i].id = received[i].id
    /\ received[1].type = INITIALIZE
    /\ received[2].type = LOAD_MODEL /\ posted[2].type = RESULT
    /\ received[3].type = LOAD_MODEL /\ received[3].modelName = received[2].modelName
    /\ posted[3].type = ERROR /\ posted[3].error = Data("create failed", received[3].modelName)
    /\ received[4].type = RUN_INFERENCE /\ received[4].modelName = received[2].modelName
    /\ posted[4].type = RESULT
    /\ handler[4].session = 2
    /\ isInitialized

\* ------------------------------------------------ properties of dispose() calls
\* the dispose requests passed to worker.postMessage
DisposeRequests ==
    {n \in DOMAIN issued : issued[n].type = DISPOSE
                           /\ ~(settled[n] # <<>> /\ settled[n][1].by = "send")}

C37_Inv ==
    /\ Cardinality(DisposeRequests) <= 1
    /\ terminateCalls <= 1
    /\ isDisposed => terminateCalls = 1

C37_Step ==
    \A k \in DOMAIN disposePc :
        (isDisposed /\ disposePc[k] = "idle" /\ disposePc'[k] # "idle") =>
            UNCHANGED <<requestId, pendingRequests, timers, isDisposed, terminateCalls,
                        inbox, responses, issued, settled, rejectedCalls>>

\* C37: for any interleaving of dispose() invocations on one proxy, a second
\* dispose() invoked while the first is still waiting for the dispose response
\* included, at most one dispose request is sent to the worker and
\* worker.terminate() is called exactly once; a dispose() on an already
\* disposed proxy does nothing.
C37_DisposeOnce == []C37_Inv /\ [][C37_Step]_vars

\* ------------------------------- properties of the model cache (shared store)
\* the calls that have called indexedDB.open and await its outcome
Opening == {c \in DOMAIN ops : ops[c].pc = "opening"}

C34_Inv ==
    /\ ops = <<>> => db = 0
    /\ Cardinality(Opening) <= 1
    /\ db # 0 => Opening = {}

C34_Step == db # 0 => db' = db

\* C34: the store connection of a ModelCache is opened lazily and at most
\* once: no open before the first operation that needs the store, never two
\* opens in progress, no open once this.db is set, and this.db, once set, is
\* the handle every later operation uses (it is never replaced).
C34_OpenedOnce == []C34_Inv /\ [][C34_Step]_cacheVars

C39_Step ==
    \A c \in DOMAIN ops : CleanupRuns(c) =>
        \A u \in DOMAIN store \ DOMAIN store' :
            Expired(ops[c].cutoff + maxAge, store[u].timestamp)

\* C39: cleanup() and the freshness check of isCached agree on expiry: a
\* cleanup that read the clock at time T (cutoffTime = T - maxAge) deletes an
\* entry only if isCached at that T treats the entry as expired; an entry of
\* age <= maxAge, the boundary included, is not removed by cleanup.
C39_CleanupAgreesWithIsCached == [][C39_Step]_cacheVars

\* ------------------------------- properties of the model cache (store errors)
C31_Inv ==
    \A c \in DOMAIN ops : ops[c].error # "" =>
        /\ ops[c].pc = "failed"
        /\ ops[c].from = ""
        /\ ops[c].stats = NoStats

C31_Step ==
    \A c \in DOMAIN ops : (ops[c].error = "" /\ ops'[c].error # "") =>
        /\ ops'[c].pc = "failed"
        /\ ops'[c].net = ops[c].net
        /\ Len(txQueue') <= Len(txQueue)
        /\ store' = store

\* C31: a failure to open the store, or a failed store request, during a cache
\* operation (the lookup of getModel, the write, cleanup, getStats) makes that
\* operation reject with the store error in the step of the failure: it
\* issues no network request and no further store request after it (no
\* retry), and it never ends with bytes or with statistics (no miss, no empty
\* result).
C31_StoreFailureRejects == []C31_Inv /\ [][C31_Step]_cacheVars

\* ------------------------- properties of the model cache (concurrent getModel)
\* the store.delete of a lazy removal runs in this step and removes an entry
RemovalRuns ==
    /\ txQueue # <<>>
    /\ Head(txQueue).kind = "delete"
    /\ txQueue' = Tail(txQueue)
    /\ Head(txQueue).url \in DOMAIN store
    /\ Head(txQueue).url \notin DOMAIN store'

C35_Step == RemovalRuns => Expired(now, store[Head(txQueue).url].timestamp)

\* C35: the lazy removal that isCached starts when it finds an expired entry
\* never deletes a fresh entry: for any interleaving of concurrent
\* getModel(url) calls, the entry a removal deletes is older than maxAge when
\* it is deleted, so an entry some call has written stays in the store until
\* it has expired itself or cleanup removes it.
C35_RemovalSparesFreshEntry == [][C35_Step]_cacheVars

\* getModel calls a and b for one url that both went to the network
BothDownload(a, b) ==
    /\ a # b
    /\ ops[a].kind = "getModel" /\ ops[b].kind = "getModel"
    /\ ops[a].url = ops[b].url
    /\ ops[a].found \in {"none", "expired"} /\ ops[b].found \in {"none", "expired"}

C33_Step ==
    \A c \in DOMAIN ops :
        /\ CacheModelCalled(c) =>
              /\ txQueue'[Len(txQueue')].op = c
              /\ txQueue'[Len(txQueue')].record.data = ops'[c].data
        /\ ops[c].pc = "put" => ops'[c].data = ops[c].data
        /\ PutRuns(c) =>
              /\ Head(txQueue).op = c
              /\ Head(txQueue).record.data = ops[c].data
              /\ ops'[c].pc = "done"
              /\ ops'[c].from = "network"
              /\ DOMAIN store' = DOMAIN store \cup {ops[c].url}
              /\ store'[ops[c].url] = Head(txQueue).record

C33_Inv ==
    \A a, b \in DOMAIN ops :
        (/\ BothDownload(a, b)
         /\ ops[a].pc = "done" /\ ops[b].pc = "done"
         /\ DOMAIN ops = {a, b}) =>
            /\ ops[a].from = "network" /\ ops[b].from = "network"
            /\ txQueue = <<>>
            /\ ops[a].url \in DOMAIN store
            /\ store[ops[a].url].url = ops[a].url
            /\ store[ops[a].url].data \in {ops[a].data, ops[b].data}

\* C33: two getModel(url) calls that run concurrently on a missing or expired
\* url both download and both write.  Each passes to store.put the bytes of
\* its own download and returns those bytes; a put replaces whatever entry
\* url has, so the entry after a put is the record of that put (the last
\* write wins).  When both calls have completed no store request is left and
\* the store holds one entry for url, written by one of the two.
C33_BothWriteLastWins == []C33_Inv /\ [][C33_Step]_cacheVars

\* both calls found the expired entry and downloaded different bytes; the
\* call made first wrote last, and its bytes are the entry
C33_Witness ==
    /\ Len(ops) = 2
    /\ BothDownload(1, 2)
    /\ ops[1].found = "expired" /\ ops[2].found = "expired"
    /\ ops[1].pc = "done" /\ ops[2].pc = "done"
    /\ ops[1].data = "p1" /\ ops[2].data = "p0"
    /\ store["u"].data = "p1" /\ store["u"].timestamp > 0

\* ------------------------------ properties of the model cache (cleanup, reads)
\* a record as cacheModel builds it: every field there, the size that of the data
WholeRecord(r, u) ==
    /\ r.url = u
    /\ r.data \in Payloads
    /\ r.timestamp <= now
    /\ \E isUint8Array \in BOOLEAN :
          r = Record(u, r.data, r.timestamp, r.etag, isUint8Array)

\* no call has written to the store or is about to
NoWrites == \A b \in DOMAIN ops : ops[b].pc # "put" /\ ops[b].from # "network"

C32_Inv ==
    /\ \A u \in DOMAIN store : WholeRecord(store[u], u)
    /\ NoWrites => \E e \in EarlierEntries \cup {EmptyMap} :
          \A u \in DOMAIN store : u \in DOMAIN e /\ store[u] = e[u]

C32_Step ==
    \A c \in DOMAIN ops :
        /\ CleanupRuns(c) =>
              /\ DOMAIN store' \subseteq DOMAIN store
              /\ \A u \in DOMAIN store' : store'[u] = store[u]
        /\ Lookup(c) =>
              /\ store' = store
              /\ ops[c].url \notin DOMAIN store => ops'[c].found = "none"
              /\ ops[c].url \in DOMAIN store =>
                    /\ ops'[c].found \in {"fresh", "expired"}
                    /\ ops'[c].found = "fresh" =>
                          ops'[c].data = store[ops[c].url].data
        /\ StatsRead(c) =>
              /\ store' = store
              /\ ops'[c].stats.count = Cardinality(DOMAIN store)
              /\ \A u \in DOMAIN store :
                    [url |-> u, size |-> store[u].size, timestamp |-> store[u].timestamp,
                     age |-> now - store[u].timestamp] \in ops'[c].stats.models
              /\ \A m \in ops'[c].stats.models : m.url \in DOMAIN store

\* C32: cleanup() running concurrently with reads never exposes a torn state.
\* The run of cleanup leaves every entry either as it was or absent, in one
\* step; every entry of the store is at all times a whole record (while
\* nothing is written, the entry that was there before cleanup); and the
\* lookup of isCached/getModel and getStats observe, for every url, that
\* whole entry or no entry.
C32_NoTornState == []C32_Inv /\ [][C32_Step]_cacheVars

\* cleanup was called first and getModel while it was pending: the lookup ran
\* before the cursor and returned the whole entry, which cleanup then removed
C32_Witness ==
    /\ Len(ops) = 2
    /\ ops[1].kind = "cleanup" /\ ops[1].pc = "done"
    /\ ops[1].existing = {<<"u", 0>>}
    /\ ops[2].kind = "getModel" /\ ops[2].pc = "done"
    /\ ops[2].found = "fresh" /\ ops[2].data = "p1"
    /\ store = EmptyMap

====
